---- MODULE Spec2Model ----
(***************************************************************************)
(* A state-machine model of source/evp_override.c: the EVP_PKEY key        *)
(* object, the EVP_PKEY_CTX key-operation context, the EVP_CIPHER_CTX      *)
(* cipher context, the HMAC_CTX context, the EVP_MD_CTX digest context     *)
(* with the EVP_MD descriptors, and the base64 block codec.                *)
(*                                                                         *)
(* A C assertion that fails stops the program: it is modelled by the       *)
(* variable fault leaving "none"; every operation is guarded by            *)
(* fault = "none".  nondet_bool() and unconstrained locals narrowed by     *)
(* __CPROVER_assume are existentially quantified outcomes.  The value a    *)
(* call returns, and what it stored through its output pointers, is kept   *)
(* in ret until the next call.                                             *)
(***************************************************************************)
EXTENDS Integers, FiniteSets, Sequences, TLC

VARIABLES
    pkey,         \* EVP_PKEY objects: handle -> [st, references, ec_key]
    held,         \* the key handles the caller got from EVP_PKEY_new and has not released
    pctx,         \* EVP_PKEY_CTX objects: handle -> struct
    ec_refs,      \* EC_KEY objects: handle -> reference count
    maxsize,      \* the values of max_signature_size() and its three siblings
    owed,         \* history: per key, references taken and not yet released
    destroyed,    \* history: per key, how often free(pkey) ran
    taken,        \* history: per key, references ever taken (counted up to three)
    cipher_ctx,   \* EVP_CIPHER_CTX objects: handle -> struct
    outl,         \* the caller's int that cipher update and final report through
    iv_supplied,  \* history: the cipher contexts an init call was given an IV for
    hmac_ctx,     \* HMAC_CTX structs of the caller: handle -> struct
    hmac_len,     \* the caller's unsigned int that HMAC_Final reports through
    md_ctx,       \* EVP_MD_CTX objects: handle -> struct
    evp_md,       \* the six static EVP_MD objects: identity -> [from, md_size, st]
    md_s,         \* the caller's unsigned int that a digest final reports through
    block,        \* the (t, f, n) the caller has for the block codec, and the last codec call
    ret,          \* the last call: operation, object, result, output length
    fault         \* "none", or why the program stopped

vars == <<pkey, held, pctx, ec_refs, maxsize, owed, destroyed, taken,
          cipher_ctx, outl, iv_supplied, hmac_ctx, hmac_len,
          md_ctx, evp_md, md_s, block, ret, fault>>

keyvars == <<pkey, held, pctx, ec_refs, maxsize, owed, destroyed, taken>>

ciphvars == <<cipher_ctx, outl, iv_supplied>>

hmacvars == <<hmac_ctx, hmac_len>>

mdvars == <<md_ctx, evp_md, md_s>>

blockvars == <<block>>

---------------------------------------------------------------------------
(* Bounds of the model. *)

MaxSize == 2        \* the largest value a max_*_size() function returns
MaxAttach == 1      \* successful EVP_PKEY_set1_EC_KEY calls explored per EC_KEY

IntBits == 5        \* the width of int
SizeBits == 6       \* the width of size_t
MaxInl == 2         \* the largest input length passed to a cipher update
MaxObj == 3         \* the largest output buffer passed to a cipher update
MaxArg == 2         \* the largest arg passed to EVP_CIPHER_CTX_ctrl

DEFAULT_IV_LEN == 12
DEFAULT_KEY_LEN == 32

NULL == 0
Min(a, b) == IF a <= b THEN a ELSE b
PKeys == DOMAIN pkey        \* the EVP_PKEY handles of the run
Ctxs == DOMAIN pctx         \* the EVP_PKEY_CTX handles of the run
ECKeys == DOMAIN ec_refs    \* the EC_KEY handles of the run
Sizes == {0, MaxSize}            \* the values a max_*_size() function may have
\* The values the caller stores in *siglen, *keylen, *outlen: nothing, one
\* byte, exactly the maximum, and more than the maximum.
Lens == {0, 1, MaxSize, MaxSize + 1}
\* __CPROVER_assume(rv <= 0): the two failure codes the operations document,
\* 0 (failure) and -2 (not supported by the algorithm), stand for all.
NonPositive == {0 - 2, 0}
OneOnly == {1}                   \* a provider that cannot fail
ZeroOrOne == {0, 1}              \* __CPROVER_assume(rv == 0 || rv == 1)

ProduceOps == {"EVP_PKEY_sign", "EVP_PKEY_derive", "EVP_PKEY_encrypt", "EVP_PKEY_decrypt"}

\* An output buffer argument: absent, present but smaller than the declared
\* length, or present and writable for the declared length.
Bufs == {"NULL", "short", "ok"}

RSA_PKCS1_PADDING == "RSA_PKCS1_PADDING"
RSA_SSLV23_PADDING == "RSA_SSLV23_PADDING"
RSA_NO_PADDING == "RSA_NO_PADDING"
RSA_PKCS1_OAEP_PADDING == "RSA_PKCS1_OAEP_PADDING"
RSA_X931_PADDING == "RSA_X931_PADDING"
RSA_PKCS1_PSS_PADDING == "RSA_PKCS1_PSS_PADDING"

Paddings ==
    {RSA_PKCS1_PADDING, RSA_SSLV23_PADDING, RSA_NO_PADDING,
     RSA_PKCS1_OAEP_PADDING, RSA_X931_PADDING, RSA_PKCS1_PSS_PADDING}

\* The pad arguments of a call: the six identifiers and one that is none of them.
PadArgs == Paddings \cup {"other"}

\* A field that malloc left unwritten.
Indeterminate == "indeterminate"

---------------------------------------------------------------------------
(* Objects. *)

NoPKey == [st |-> "none", references |-> 0, ec_key |-> NULL]
FreedPKey == [st |-> "freed", references |-> 0, ec_key |-> NULL]

NoCtx ==
    [st |-> "none",
     is_initialized_for_signing |-> FALSE,
     is_initialized_for_derivation |-> FALSE,
     is_initialized_for_encryption |-> FALSE,
     is_initialized_for_decryption |-> FALSE,
     rsa_pad |-> Indeterminate,
     pkey |-> NULL]

\* The record of a call that stored nothing through an output pointer.  out
\* says whether an output buffer was passed.
RetOut(op, obj, rv, out) ==
    [op |-> op, obj |-> obj, rv |-> rv, out |-> out,
     cap |-> 0, stored |-> FALSE, len |-> 0, wr |-> 0]

Ret(op, obj, rv) == RetOut(op, obj, rv, "NULL")

\* The record of a call that stored len through its length pointer and wrote wr
\* bytes to its output buffer; cap is the value the length pointer held on entry.
RetIO(op, obj, rv, out, cap, len, wr) ==
    [op |-> op, obj |-> obj, rv |-> rv, out |-> out,
     cap |-> cap, stored |-> TRUE, len |-> len, wr |-> wr]

\* What a call sees of its output buffer argument.
Seen(out) == IF out = "NULL" THEN "NULL" ELSE "buf"

LiveKeys == {k \in PKeys : pkey[k].st = "live"}
LiveCtxs == {c \in Ctxs : pctx[c].st = "live"}

\* malloc returns the lowest free slot.
FreshPKey == CHOOSE k \in PKeys : pkey[k].st = "none" /\ \A j \in PKeys : j < k => pkey[j].st # "none"
FreshCtx == CHOOSE c \in Ctxs : pctx[c].st = "none" /\ \A j \in Ctxs : j < c => pctx[j].st # "none"

\* A failed assertion: the program stops inside the call, nothing is returned.
Abort(op, obj) ==
    /\ fault' = "assert"
    /\ ret' = Ret(op, obj, 0)
    /\ UNCHANGED <<keyvars, ciphvars, hmacvars, mdvars, blockvars>>

\* An access to memory that is not there (a null or dangling pointer).
MemoryFault(op, obj) ==
    /\ fault' = "memory"
    /\ ret' = Ret(op, obj, 0)
    /\ UNCHANGED <<keyvars, ciphvars, hmacvars, mdvars, blockvars>>

---------------------------------------------------------------------------
(* EC_KEY: the key material, kept by reference count. *)

ec_key_is_valid(e) == e # NULL /\ ec_refs[e] > 0

EC_KEY_up_ref(refs, e) == [refs EXCEPT ![e] = @ + 1]

EC_KEY_free(refs, e) == IF e = NULL \/ refs[e] = 0 THEN refs ELSE [refs EXCEPT ![e] = @ - 1]

max_signature_size == maxsize["EVP_PKEY_sign"]
max_derivation_size == maxsize["EVP_PKEY_derive"]
max_encryption_size == maxsize["EVP_PKEY_encrypt"]
max_decryption_size == maxsize["EVP_PKEY_decrypt"]

---------------------------------------------------------------------------
(* EVP_PKEY. *)

evp_pkey_is_valid(k) ==
    /\ k # NULL
    /\ pkey[k].st = "live"
    /\ pkey[k].references > 0
    /\ (pkey[k].ec_key = NULL \/ ec_key_is_valid(pkey[k].ec_key))

evp_pkey_ctx_is_valid(c) ==
    /\ c # NULL
    /\ (pctx[c].pkey = NULL \/ evp_pkey_is_valid(pctx[c].pkey))

\* EVP_PKEY_new: malloc may fail
EVP_PKEY_new ==
    /\ fault = "none"
    /\ \E k \in PKeys : pkey[k].st = "none"
    /\ \E ok \in BOOLEAN :
        IF ok
        THEN LET k == FreshPKey IN
             /\ pkey' = [pkey EXCEPT ![k] = [st |-> "live", references |-> 1, ec_key |-> NULL]]
             /\ held' = held \cup {k}
             /\ owed' = [owed EXCEPT ![k] = 1]
             /\ taken' = [taken EXCEPT ![k] = 1]
             /\ ret' = Ret("EVP_PKEY_new", k, 0)
             /\ UNCHANGED <<pctx, ec_refs, maxsize, destroyed, fault, ciphvars, hmacvars, mdvars, blockvars>>
        ELSE /\ ret' = Ret("EVP_PKEY_new", NULL, 0)
             /\ UNCHANGED <<keyvars, fault, ciphvars, hmacvars, mdvars, blockvars>>

\* EVP_PKEY_get0_EC_KEY: the result is the stored handle, returned in ret.rv
EVP_PKEY_get0_EC_KEY(k) ==
    /\ fault = "none"
    /\ IF k = NULL
       THEN Abort("EVP_PKEY_get0_EC_KEY", k)
       ELSE /\ ret' = Ret("EVP_PKEY_get0_EC_KEY", k, pkey[k].ec_key)
            /\ UNCHANGED <<keyvars, fault, ciphvars, hmacvars, mdvars, blockvars>>

\* Whether one more successful attach of e stays within the model's bound.
AttachInBound(e) == e = NULL \/ ec_refs[e] <= MaxAttach

\* pkey->ec_key = key, were the attachment to count as a holder of the key.
AttachedKeys_TakesRef(k, e) == [pkey EXCEPT ![k].ec_key = e, ![k].references = @ + 1]

\* pkey->ec_key = key: the keys after a successful attachment.
AttachedKeys(k, e) == [pkey EXCEPT ![k].ec_key = e]

\* EVP_PKEY_set1_EC_KEY
EVP_PKEY_set1_EC_KEY(k, e) ==
    /\ fault = "none"
    /\ \E failed \in (IF AttachInBound(e) THEN BOOLEAN ELSE {TRUE}) :
        IF k = NULL \/ e = NULL \/ failed
        THEN /\ ret' = Ret("EVP_PKEY_set1_EC_KEY", k, 0)
             /\ UNCHANGED <<keyvars, fault, ciphvars, hmacvars, mdvars, blockvars>>
        ELSE /\ ec_refs' = EC_KEY_up_ref(ec_refs, e)
             /\ pkey' = AttachedKeys(k, e)
             /\ ret' = Ret("EVP_PKEY_set1_EC_KEY", k, 1)
             /\ UNCHANGED <<held, pctx, maxsize, owed, destroyed, taken, fault, ciphvars, hmacvars, mdvars, blockvars>>

\* evp_pkey_set0_ec_key: the EC_KEY stored without a reference taken
evp_pkey_set0_ec_key(k, e) ==
    /\ fault = "none"
    /\ pkey' = IF k = NULL THEN pkey ELSE [pkey EXCEPT ![k].ec_key = e]
    /\ ret' = Ret("evp_pkey_set0_ec_key", k, 0)
    /\ UNCHANGED <<held, pctx, ec_refs, maxsize, owed, destroyed, taken, fault, ciphvars, hmacvars, mdvars, blockvars>>

\* The test references == 0 dropped: every release destroys.
PKeyDestroys_Always(k) == k # NULL /\ pkey[k].references > 0

\* The body of EVP_PKEY_free: whether this call destroys the key.
PKeyDestroys(k) == k # NULL /\ pkey[k].references > 0 /\ pkey[k].references - 1 = 0

\* The body of EVP_PKEY_free: the keys after the call.
PKeyAfterFree(k) ==
    IF k # NULL /\ pkey[k].references > 0
    THEN IF PKeyDestroys(k)
         THEN [pkey EXCEPT ![k] = FreedPKey]
         ELSE [pkey EXCEPT ![k].references = @ - 1]
    ELSE pkey

\* What EVP_PKEY_free(k) does to the objects and the history, whoever calls it.
PKeyFreeEffect(k) ==
    /\ pkey' = PKeyAfterFree(k)
    /\ ec_refs' = IF PKeyDestroys(k) THEN EC_KEY_free(ec_refs, pkey[k].ec_key) ELSE ec_refs
    /\ owed' = IF k # NULL THEN [owed EXCEPT ![k] = IF @ > 0 THEN @ - 1 ELSE 0] ELSE owed
    /\ destroyed' = IF PKeyDestroys(k) THEN [destroyed EXCEPT ![k] = @ + 1] ELSE destroyed
    /\ UNCHANGED taken

\* EVP_PKEY_free, called by the owner of a handle (or with NULL)
EVP_PKEY_free(k) ==
    /\ fault = "none"
    /\ IF k # NULL /\ pkey[k].st = "freed"
       THEN MemoryFault("EVP_PKEY_free", k)
       ELSE /\ PKeyFreeEffect(k)
            /\ held' = held \ {k}
            /\ ret' = Ret("EVP_PKEY_free", k, 0)
            /\ UNCHANGED <<pctx, maxsize, fault, ciphvars, hmacvars, mdvars, blockvars>>

---------------------------------------------------------------------------
(* EVP_PKEY_CTX: creation, the four init operations, free. *)

\* The signing flag left unwritten, holding true.
NewCtx_FlagLeft(k) ==
    [NoCtx EXCEPT !.st = "live", !.pkey = k, !.is_initialized_for_signing = TRUE]

\* The EVP_PKEY_CTX a successful EVP_PKEY_CTX_new(k) or EVP_PKEY_CTX_new_id
\* (k null) returns: the four flags false, the key bound, rsa_pad unwritten.
NewCtx(k) == [NoCtx EXCEPT !.st = "live", !.pkey = k]

\* pkey->references += 1 forgotten.
CtxNewKeys_NoRef(k) == pkey

\* The keys after a successful EVP_PKEY_CTX_new(k): pkey->references += 1.
CtxNewKeys(k) == [pkey EXCEPT ![k].references = @ + 1]

\* EVP_PKEY_CTX_new (e is always NULL): malloc may fail.  A key that was
\* destroyed is read through a dangling pointer: the read traps, or gives
\* the references == 0 that EVP_PKEY_free left before free(pkey).
EVP_PKEY_CTX_new(k) ==
    /\ fault = "none"
    /\ \E c \in Ctxs : pctx[c].st = "none"
    /\ IF k # NULL /\ pkey[k].st = "freed"
       THEN Abort("EVP_PKEY_CTX_new", NULL) \/ MemoryFault("EVP_PKEY_CTX_new", NULL)
       ELSE IF ~evp_pkey_is_valid(k)
       THEN Abort("EVP_PKEY_CTX_new", NULL)
       ELSE \E ok \in BOOLEAN :
            IF ok
            THEN LET c == FreshCtx IN
                 /\ pctx' = [pctx EXCEPT ![c] = NewCtx(k)]
                 /\ pkey' = CtxNewKeys(k)
                 /\ owed' = [owed EXCEPT ![k] = @ + 1]
                 /\ taken' = [taken EXCEPT ![k] = IF @ < 3 THEN @ + 1 ELSE @]
                 /\ ret' = Ret("EVP_PKEY_CTX_new", c, 0)
                 /\ UNCHANGED <<held, ec_refs, maxsize, destroyed, fault, ciphvars, hmacvars, mdvars, blockvars>>
            ELSE /\ ret' = Ret("EVP_PKEY_CTX_new", NULL, 0)
                 /\ UNCHANGED <<keyvars, fault, ciphvars, hmacvars, mdvars, blockvars>>

\* EVP_PKEY_CTX_new_id
EVP_PKEY_CTX_new_id ==
    /\ fault = "none"
    /\ \E c \in Ctxs : pctx[c].st = "none"
    /\ \E ok \in BOOLEAN :
        IF ok
        THEN LET c == FreshCtx IN
             /\ pctx' = [pctx EXCEPT ![c] = NewCtx(NULL)]
             /\ ret' = Ret("EVP_PKEY_CTX_new_id", c, 0)
             /\ UNCHANGED <<pkey, held, ec_refs, maxsize, owed, destroyed, taken, fault, ciphvars, hmacvars, mdvars, blockvars>>
        ELSE /\ ret' = Ret("EVP_PKEY_CTX_new_id", NULL, 0)
             /\ UNCHANGED <<keyvars, fault, ciphvars, hmacvars, mdvars, blockvars>>

\* The flag set before nondet_bool() is consulted: a failed init keeps it.
InitOutcome_FlagsFirst(op, c, flagged) ==
    /\ pctx' = [pctx EXCEPT ![c] = flagged]
    /\ \E rv \in NonPositive \cup {1} : ret' = Ret(op, c, rv)
    /\ UNCHANGED <<pkey, held, ec_refs, maxsize, owed, destroyed, taken, fault, ciphvars, hmacvars, mdvars, blockvars>>

\* The tail shared by the four init operations: nondet_bool() chooses between
\* setting the flag and returning 1, and returning some rv <= 0.
InitOutcome(op, c, flagged) ==
    \/ /\ pctx' = [pctx EXCEPT ![c] = flagged]
       /\ ret' = Ret(op, c, 1)
       /\ UNCHANGED <<pkey, held, ec_refs, maxsize, owed, destroyed, taken, fault, ciphvars, hmacvars, mdvars, blockvars>>
    \/ /\ \E rv \in NonPositive : ret' = Ret(op, c, rv)
       /\ UNCHANGED <<keyvars, fault, ciphvars, hmacvars, mdvars, blockvars>>

\* EVP_PKEY_derive_init
EVP_PKEY_derive_init(c) ==
    /\ fault = "none"
    /\ IF c = NULL
       THEN Abort("EVP_PKEY_derive_init", c)
       ELSE InitOutcome("EVP_PKEY_derive_init", c,
                        [pctx[c] EXCEPT !.is_initialized_for_derivation = TRUE])

\* EVP_PKEY_sign_init
EVP_PKEY_sign_init(c) ==
    /\ fault = "none"
    /\ IF c = NULL \/ pctx[c].pkey = NULL
       THEN Abort("EVP_PKEY_sign_init", c)
       ELSE InitOutcome("EVP_PKEY_sign_init", c,
                        [pctx[c] EXCEPT !.is_initialized_for_signing = TRUE])

\* EVP_PKEY_encrypt_init
EVP_PKEY_encrypt_init(c) ==
    /\ fault = "none"
    /\ IF c = NULL \/ pctx[c].pkey = NULL
       THEN Abort("EVP_PKEY_encrypt_init", c)
       ELSE InitOutcome("EVP_PKEY_encrypt_init", c,
                        [pctx[c] EXCEPT !.is_initialized_for_encryption = TRUE])

\* EVP_PKEY_decrypt_init
EVP_PKEY_decrypt_init(c) ==
    /\ fault = "none"
    /\ IF c = NULL \/ pctx[c].pkey = NULL
       THEN Abort("EVP_PKEY_decrypt_init", c)
       ELSE InitOutcome("EVP_PKEY_decrypt_init", c,
                        [pctx[c] EXCEPT !.is_initialized_for_decryption = TRUE])

\* EVP_PKEY_CTX_free: releases the bound key, then the context
EVP_PKEY_CTX_free(c) ==
    /\ fault = "none"
    /\ IF c = NULL
       THEN /\ ret' = Ret("EVP_PKEY_CTX_free", c, 0)
            /\ UNCHANGED <<keyvars, fault, ciphvars, hmacvars, mdvars, blockvars>>
       ELSE IF pctx[c].pkey # NULL /\ pkey[pctx[c].pkey].st = "freed"
       THEN MemoryFault("EVP_PKEY_CTX_free", c)
       ELSE /\ PKeyFreeEffect(pctx[c].pkey)
            /\ pctx' = [pctx EXCEPT ![c] = NoCtx]
            /\ ret' = Ret("EVP_PKEY_CTX_free", c, 0)
            /\ UNCHANGED <<held, maxsize, fault, ciphvars, hmacvars, mdvars, blockvars>>

---------------------------------------------------------------------------
(* EVP_PKEY_CTX: sign, derive, encrypt, decrypt. *)

\* The failure path taken after the length was stored.
ProduceFailed_Stores(op, c, out) ==
    /\ \E rv \in NonPositive : ret' = RetIO(op, c, rv, Seen(out), 0, maxsize[op], 0)
    /\ UNCHANGED <<keyvars, fault, ciphvars, hmacvars, mdvars, blockvars>>

\* A call that returned rv <= 0 before touching its outputs.
ProduceFailed(op, c, out) ==
    /\ \E rv \in NonPositive : ret' = RetOut(op, c, rv, Seen(out))
    /\ UNCHANGED <<keyvars, fault, ciphvars, hmacvars, mdvars, blockvars>>

\* The declared capacity of the buffer of a call, none on a size query.
Declared(out, lin) == IF out = "NULL" THEN 0 ELSE lin

\* The size written to *siglen by a successful EVP_PKEY_sign: the maximum on a
\* size query, else the amount of data written.
SignLength(sig, amount) == IF sig = "NULL" THEN max_signature_size ELSE amount

\* The bound taken one too far.
SignAmounts_OffByOne(sig) == IF sig = "NULL" THEN {0} ELSE 0..(max_signature_size + 1)

\* The amounts of data a successful EVP_PKEY_sign may write: none on a size
\* query, else __CPROVER_assume(amount_of_data_written <= max_required_size).
SignAmounts(sig) == IF sig = "NULL" THEN {0} ELSE 0..max_signature_size

\* EVP_PKEY_sign; siglen and tbs say whether the pointer is usable
EVP_PKEY_sign(c, sig, siglen, lin, tbs) ==
    /\ fault = "none"
    /\ IF \/ ~evp_pkey_ctx_is_valid(c)
          \/ ~pctx[c].is_initialized_for_signing
          \/ ~siglen
          \/ ~(sig = "NULL" \/ (lin >= max_signature_size /\ sig = "ok"))
          \/ ~tbs
       THEN Abort("EVP_PKEY_sign", c)
       ELSE \/ ProduceFailed("EVP_PKEY_sign", c, sig)
            \/ /\ \E amount \in SignAmounts(sig) :
                    ret' = RetIO("EVP_PKEY_sign", c, 1, Seen(sig), Declared(sig, lin),
                                SignLength(sig, amount), amount)
               /\ UNCHANGED <<keyvars, fault, ciphvars, hmacvars, mdvars, blockvars>>

\* The size query answered with the caller's own *len instead of the maximum.
ProduceLength_Echo(op, out, lin, amount) == IF out = "NULL" THEN lin ELSE amount

\* The size written to *keylen / *outlen by a successful derive, encrypt or decrypt.
ProduceLength(op, out, lin, amount) == IF out = "NULL" THEN maxsize[op] ELSE amount

\* The amounts of data a successful derive, encrypt or decrypt may write: none
\* on a size query, else __CPROVER_assume(amount_of_data_written <= *keylen).
ProduceAmounts(out, lin) == IF out = "NULL" THEN {0} ELSE 0..lin

\* The part derive, encrypt and decrypt share, after their assertions.  A
\* short buffer holds one byte less than the declared length: writing the
\* full declared length runs past its end.
ProduceOutcome(op, c, out, lenp, lin) ==
    \/ ProduceFailed(op, c, out)
    \/ IF ~lenp
       THEN MemoryFault(op, c)
       ELSE \E amount \in ProduceAmounts(out, lin) :
               IF out = "short" /\ amount = lin
               THEN MemoryFault(op, c)
               ELSE /\ ret' = RetIO(op, c, 1, Seen(out), Declared(out, lin),
                                    ProduceLength(op, out, lin, amount), amount)
                    /\ UNCHANGED <<keyvars, fault, ciphvars, hmacvars, mdvars, blockvars>>

\* EVP_PKEY_derive
EVP_PKEY_derive(c, key, keylen, lin) ==
    /\ fault = "none"
    /\ IF c = NULL \/ ~pctx[c].is_initialized_for_derivation \/ ~keylen
       THEN Abort("EVP_PKEY_derive", c)
       ELSE ProduceOutcome("EVP_PKEY_derive", c, key, keylen, lin)

\* EVP_PKEY_encrypt
EVP_PKEY_encrypt(c, out, outlen, lin) ==
    /\ fault = "none"
    /\ IF c = NULL
       THEN Abort("EVP_PKEY_encrypt", c)
       ELSE ProduceOutcome("EVP_PKEY_encrypt", c, out, outlen, lin)

\* EVP_PKEY_decrypt
EVP_PKEY_decrypt(c, out, outlen, lin) ==
    /\ fault = "none"
    /\ IF c = NULL
       THEN Abort("EVP_PKEY_decrypt", c)
       ELSE ProduceOutcome("EVP_PKEY_decrypt", c, out, outlen, lin)

---------------------------------------------------------------------------
(* EVP_PKEY_CTX: control and the RSA padding setters. *)

\* EVP_PKEY_CTX_ctrl; anytype says whether keytype == -1
EVP_PKEY_CTX_ctrl(c, anytype) ==
    /\ fault = "none"
    /\ IF c = NULL \/ ~anytype
       THEN Abort("EVP_PKEY_CTX_ctrl", c)
       ELSE /\ \E rv \in NonPositive \cup {1} : ret' = Ret("EVP_PKEY_CTX_ctrl", c, rv)
            /\ UNCHANGED <<keyvars, fault, ciphvars, hmacvars, mdvars, blockvars>>

\* X9.31 accepted whatever the context is initialised for.
PaddingAccepted_AnyMode(c, pad) == pad \in Paddings

\* The two assertions of EVP_PKEY_CTX_set_rsa_padding on pad.
PaddingAccepted(c, pad) ==
    /\ pad \in Paddings
    /\ (pad = RSA_X931_PADDING => pctx[c].is_initialized_for_signing)

\* EVP_PKEY_CTX_set_rsa_padding
EVP_PKEY_CTX_set_rsa_padding(c, pad) ==
    /\ fault = "none"
    /\ IF c = NULL \/ ~PaddingAccepted(c, pad)
       THEN Abort("EVP_PKEY_CTX_set_rsa_padding", c)
       ELSE /\ pctx' = [pctx EXCEPT ![c].rsa_pad = pad]
            /\ \E rv \in ZeroOrOne : ret' = Ret("EVP_PKEY_CTX_set_rsa_padding", c, rv)
            /\ UNCHANGED <<pkey, held, ec_refs, maxsize, owed, destroyed, taken, fault, ciphvars, hmacvars, mdvars, blockvars>>

\* The values a read of ctx->rsa_pad may give: any, while the field is unwritten.
RsaPadRead(c) ==
    IF pctx[c].rsa_pad = Indeterminate THEN Paddings \cup {"other"} ELSE {pctx[c].rsa_pad}

\* The part the two digest setters share: the assertion on the padding read.
PadDigestSetter(op, c, accepted) ==
    /\ fault = "none"
    /\ IF c = NULL
       THEN Abort(op, c)
       ELSE \E pad \in RsaPadRead(c) :
            IF pad \notin accepted
            THEN Abort(op, c)
            ELSE /\ \E rv \in ZeroOrOne : ret' = Ret(op, c, rv)
                 /\ UNCHANGED <<keyvars, fault, ciphvars, hmacvars, mdvars, blockvars>>

\* EVP_PKEY_CTX_set_rsa_oaep_md
EVP_PKEY_CTX_set_rsa_oaep_md(c) ==
    PadDigestSetter("EVP_PKEY_CTX_set_rsa_oaep_md", c, {RSA_PKCS1_OAEP_PADDING})

\* EVP_PKEY_CTX_set_rsa_mgf1_md
EVP_PKEY_CTX_set_rsa_mgf1_md(c) ==
    PadDigestSetter("EVP_PKEY_CTX_set_rsa_mgf1_md", c,
                    {RSA_PKCS1_OAEP_PADDING, RSA_PKCS1_PSS_PADDING})

---------------------------------------------------------------------------
(* Fixed-width integers: int and size_t. *)

INT_MIN == 0 - 2^(IntBits - 1)
INT_MAX == 2^(IntBits - 1) - 1
SIZE_MAX == 2^SizeBits - 1
IntRange == INT_MIN..INT_MAX

\* The conversion of an int to size_t: the value modulo SIZE_MAX + 1.
ToSizeT(i) == i % (SIZE_MAX + 1)

\* The conversion of a size_t to int: the low IntBits bits, two's complement.
ToInt(u) ==
    LET m == u % 2^IntBits
    IN  IF m > INT_MAX THEN m - 2^IntBits ELSE m

---------------------------------------------------------------------------
(* EVP_CIPHER and EVP_CIPHER_CTX. *)

EVP_aes_128_gcm == "EVP_AES_128_GCM"
EVP_aes_192_gcm == "EVP_AES_192_GCM"
EVP_aes_256_gcm == "EVP_AES_256_GCM"
EVP_aes_128_ecb == "EVP_AES_128_ECB"
Ciphers == {EVP_aes_128_gcm, EVP_aes_192_gcm, EVP_aes_256_gcm, EVP_aes_128_ecb}
NoCipher == "NULL"

EVP_CTRL_GCM_SET_IVLEN == "EVP_CTRL_GCM_SET_IVLEN"
EVP_CTRL_AEAD_SET_IVLEN == "EVP_CTRL_AEAD_SET_IVLEN"
EVP_CTRL_GCM_GET_TAG == "EVP_CTRL_GCM_GET_TAG"
EVP_CTRL_GCM_SET_TAG == "EVP_CTRL_GCM_SET_TAG"
SetIvLenTypes == {EVP_CTRL_GCM_SET_IVLEN, EVP_CTRL_AEAD_SET_IVLEN}
CtrlTypes == SetIvLenTypes \cup {EVP_CTRL_GCM_GET_TAG, EVP_CTRL_GCM_SET_TAG, "other"}

CCtxs == DOMAIN cipher_ctx       \* the EVP_CIPHER_CTX handles of the run
Inls == 0..MaxInl                \* the input lengths a caller passes to an update
ObjSizes == {1, MaxObj}          \* the sizes of the output buffers a caller passes
CtrlArgs == (0 - 1)..MaxArg      \* the arg values a caller passes to a control
EncArgs == (0 - 1)..2            \* enc: unchanged, decrypt, encrypt, and one illegal value

\* The values a read of the unassigned field encrypt can give: the code
\* compares it with 0 and with 1 only, and 2 stands for every other int.
AnyEncrypt == 0..2

\* A slot no cipher context lives in.  The field encrypt holds the set of
\* values a read of it can give: one value once assigned, any before.
NoCipherCtx ==
    [st |-> "none", cipher |-> NoCipher, encrypt |-> {}, iv_len |-> 0, iv_set |-> FALSE,
     key_len |-> 0, padding |-> FALSE, data_processed |-> FALSE, data_remaining |-> 0]

LiveCCtxs == {c \in CCtxs : cipher_ctx[c].st = "live"}

FreshCCtx ==
    CHOOSE c \in CCtxs : cipher_ctx[c].st = "none" /\ \A j \in CCtxs : j < c => cipher_ctx[j].st # "none"

\* A call that returns rv and leaves every object as it was.
Returns(op, obj, rv) ==
    /\ ret' = Ret(op, obj, rv)
    /\ UNCHANGED <<keyvars, ciphvars, hmacvars, mdvars, blockvars, fault>>

\* A call that returns rv and leaves the cipher context with struct after.
CipherReturns(op, c, rv, after) ==
    /\ cipher_ctx' = [cipher_ctx EXCEPT ![c] = after]
    /\ ret' = Ret(op, c, rv)
    /\ UNCHANGED <<keyvars, outl, iv_supplied, hmacvars, mdvars, blockvars, fault>>

\* void EVP_CIPHER_CTX_init(ctx): does nothing.
EVP_CIPHER_CTX_init(c) ==
    /\ fault = "none"
    /\ Returns("EVP_CIPHER_CTX_init", c, 0)

\* The struct EVP_CIPHER_CTX_new fills in; it leaves encrypt unassigned.
NewCipherCtx ==
    [st |-> "live", cipher |-> NoCipher, encrypt |-> AnyEncrypt, iv_len |-> DEFAULT_IV_LEN,
     iv_set |-> FALSE, key_len |-> DEFAULT_KEY_LEN, padding |-> TRUE,
     data_processed |-> FALSE, data_remaining |-> 0]

EVP_CIPHER_CTX_new ==
    /\ fault = "none"
    /\ \/ Returns("EVP_CIPHER_CTX_new", NULL, 0)
       \/ /\ \E c \in CCtxs : cipher_ctx[c].st = "none"
          /\ cipher_ctx' = [cipher_ctx EXCEPT ![FreshCCtx] = NewCipherCtx]
          /\ iv_supplied' = iv_supplied \ {FreshCCtx}
          /\ ret' = Ret("EVP_CIPHER_CTX_new", FreshCCtx, 0)
          /\ UNCHANGED <<keyvars, outl, hmacvars, mdvars, blockvars, fault>>

EVP_CipherInit_ex(c, cipher, iv, enc) ==
    /\ fault = "none"
    /\ IF c = NULL \/ enc \notin {0, 1, 0 - 1}
       THEN Abort("EVP_CipherInit_ex", c)
       ELSE /\ cipher_ctx' =
                 [cipher_ctx EXCEPT
                    ![c].encrypt = IF enc # 0 - 1 THEN {enc} ELSE @,
                    ![c].cipher = IF cipher # NoCipher THEN cipher ELSE @,
                    ![c].iv_set = @ \/ iv]
            /\ iv_supplied' = IF iv THEN iv_supplied \cup {c} ELSE iv_supplied
            /\ \E rv \in ZeroOrOne : ret' = RetOut("EVP_CipherInit_ex", c, rv, IF iv THEN "buf" ELSE "NULL")
            /\ UNCHANGED <<keyvars, outl, hmacvars, mdvars, blockvars, fault>>

\* __CPROVER_w_ok(p, n): p points to an object with n writable bytes.  A
\* buffer is the pair (present, size of the object) and n a size_t.
w_ok(buf, n) == buf[1] /\ n <= buf[2]

\* The tag assertions, were a tag available before the final call.
TagAllowed_AnyTime(c, type, e, arg, ptr) ==
    IF type = EVP_CTRL_GCM_GET_TAG
    THEN e = 1 /\ w_ok(ptr, ToSizeT(arg))
    ELSE e = 0 /\ w_ok(ptr, ToSizeT(arg))

\* The assertions of a get-tag or set-tag control, e being the value read
\* from ctx->encrypt.
TagAllowed(c, type, e, arg, ptr) ==
    IF type = EVP_CTRL_GCM_GET_TAG
    THEN e = 1 /\ cipher_ctx[c].data_processed /\ w_ok(ptr, ToSizeT(arg))
    ELSE e = 0 /\ w_ok(ptr, ToSizeT(arg))

\* ptr is the pair (present, size of the object it points to).
EVP_CIPHER_CTX_ctrl(c, type, arg, ptr) ==
    /\ fault = "none"
    /\ IF type \notin CtrlTypes \ {"other"}
       THEN \E rv \in ZeroOrOne : Returns("EVP_CIPHER_CTX_ctrl", c, rv)
       ELSE IF c = NULL
       THEN MemoryFault("EVP_CIPHER_CTX_ctrl", c)
       ELSE IF type \in SetIvLenTypes
       THEN IF cipher_ctx[c].iv_set \/ arg <= 0
            THEN Abort("EVP_CIPHER_CTX_ctrl", c)
            ELSE \E rv \in ZeroOrOne :
                    CipherReturns("EVP_CIPHER_CTX_ctrl", c, rv, [cipher_ctx[c] EXCEPT !.iv_len = arg])
       ELSE \E e \in cipher_ctx[c].encrypt :
               /\ IF TagAllowed(c, type, e, arg, ptr)
                  THEN \E rv \in ZeroOrOne :
                          ret' = RetOut("EVP_CIPHER_CTX_ctrl", c, rv, type) /\ fault' = fault
                  ELSE ret' = RetOut("EVP_CIPHER_CTX_ctrl", c, 0, type) /\ fault' = "assert"
               /\ UNCHANGED <<keyvars, ciphvars, hmacvars, mdvars, blockvars>>

EVP_CIPHER_CTX_free(c) ==
    /\ fault = "none"
    /\ IF c = NULL
       THEN Returns("EVP_CIPHER_CTX_free", c, 0)
       ELSE /\ cipher_ctx' = [cipher_ctx EXCEPT ![c] = NoCipherCtx]
            /\ iv_supplied' = iv_supplied \ {c}
            /\ ret' = Ret("EVP_CIPHER_CTX_free", c, 0)
            /\ UNCHANGED <<keyvars, outl, hmacvars, mdvars, blockvars, fault>>

\* DirectionInit, were an init operation to start the context over.
DirectionInit_Restarts(op, c, iv, enc) ==
    /\ cipher_ctx' = [cipher_ctx EXCEPT ![c].encrypt = {enc}, ![c].data_processed = FALSE]
    /\ iv_supplied' = IF iv THEN iv_supplied \cup {c} ELSE iv_supplied
    /\ \E rv \in ZeroOrOne : ret' = RetOut(op, c, rv, IF iv THEN "buf" ELSE "NULL")
    /\ UNCHANGED <<keyvars, outl, hmacvars, mdvars, blockvars, fault>>

\* EVP_EncryptInit_ex and EVP_DecryptInit_ex past their assertions: the
\* direction is set, type, key and iv are not looked at.
DirectionInit(op, c, iv, enc) ==
    /\ cipher_ctx' = [cipher_ctx EXCEPT ![c].encrypt = {enc}]
    /\ iv_supplied' = IF iv THEN iv_supplied \cup {c} ELSE iv_supplied
    /\ \E rv \in ZeroOrOne : ret' = RetOut(op, c, rv, IF iv THEN "buf" ELSE "NULL")
    /\ UNCHANGED <<keyvars, outl, hmacvars, mdvars, blockvars, fault>>

EVP_EncryptInit_ex(c, type, iv) ==
    /\ fault = "none"
    /\ IF c = NULL
       THEN Abort("EVP_EncryptInit_ex", c)
       ELSE DirectionInit("EVP_EncryptInit_ex", c, iv, 1)

EVP_DecryptInit_ex(c, type, iv) ==
    /\ fault = "none"
    /\ IF c = NULL \/ type = NoCipher
       THEN Abort("EVP_DecryptInit_ex", c)
       ELSE DirectionInit("EVP_DecryptInit_ex", c, iv, 0)

\* The out_size values an update goes on with, given the largest value its
\* __CPROVER_assume allows.  With a cipher configured every value above the
\* size of the output object fails the same assertion with the same effect,
\* and osize + 1 stands for all of them.
OutSizes(c, limit, osize) ==
    IF cipher_ctx[c].cipher = NoCipher THEN 0..limit ELSE 0..Min(limit, osize + 1)

\* The counter set by every update, a cipher configured or not.
Remaining_AnyCipher(c, inl, out_size) == ToSizeT(ToSizeT(inl) - out_size)

\* ctx->data_remaining after an update that goes on with out_size: it is
\* assigned inl - out_size only in the branch with no cipher configured.
Remaining(c, inl, out_size) ==
    IF cipher_ctx[c].cipher = NoCipher
    THEN ToSizeT(ToSizeT(inl) - out_size)
    ELSE cipher_ctx[c].data_remaining

\* An update past its assumptions: the remaining-bytes counter is set when no
\* cipher is configured, then the object size is asserted and *outl stored.
UpdateStore(op, c, rv, out_size, osize, outlp, inl) ==
    /\ cipher_ctx' = [cipher_ctx EXCEPT ![c].data_remaining = Remaining(c, inl, out_size)]
    /\ IF out_size > osize \/ ~outlp
       THEN /\ fault' = IF out_size > osize THEN "assert" ELSE "memory"
            /\ ret' = Ret(op, c, 0)
            /\ UNCHANGED <<keyvars, outl, iv_supplied, hmacvars, mdvars, blockvars>>
       ELSE /\ outl' = ToInt(out_size)
            /\ ret' = RetIO(op, c, rv, "buf", inl, ToInt(out_size), out_size)
            /\ UNCHANGED <<keyvars, iv_supplied, hmacvars, mdvars, blockvars, fault>>

\* The largest out_size EVP_EncryptUpdate assumes: inl - 1 is computed in
\* int and converted to size_t for the comparison.
EncryptLimit(c, inl) ==
    IF cipher_ctx[c].cipher # NoCipher THEN ToSizeT(inl - 1) ELSE ToSizeT(inl)

EVP_EncryptUpdate(c, out, osize, outlp, inl) ==
    /\ fault = "none"
    /\ IF c = NULL \/ cipher_ctx[c].data_processed
       THEN Abort("EVP_EncryptUpdate", c)
       ELSE \E rv \in ZeroOrOne :
               IF ~out
               THEN Returns("EVP_EncryptUpdate", c, rv)
               ELSE \E out_size \in OutSizes(c, EncryptLimit(c, inl), osize) :
                       UpdateStore("EVP_EncryptUpdate", c, rv, out_size, osize, outlp, inl)

\* The largest out_size EVP_DecryptUpdate assumes: none at all with a
\* cipher configured and padding off.
DecryptLimit(c, inl) ==
    IF cipher_ctx[c].cipher # NoCipher /\ ~cipher_ctx[c].padding THEN SIZE_MAX ELSE ToSizeT(inl)

EVP_DecryptUpdate(c, out, osize, outlp, inl) ==
    /\ fault = "none"
    /\ IF c = NULL \/ cipher_ctx[c].data_processed
       THEN Abort("EVP_DecryptUpdate", c)
       ELSE \E rv \in ZeroOrOne :
               IF ~out
               THEN Returns("EVP_DecryptUpdate", c, rv)
               ELSE \E out_size \in OutSizes(c, DecryptLimit(c, inl), osize) :
                       UpdateStore("EVP_DecryptUpdate", c, rv, out_size, osize, outlp, inl)

\* if (ctx->encrypt): a read of the unassigned field can give any int.
EVP_CipherUpdate(c, out, osize, outlp, inl) ==
    /\ fault = "none"
    /\ IF c = NULL
       THEN Abort("EVP_CipherUpdate", c)
       ELSE \E e \in cipher_ctx[c].encrypt :
               IF e # 0
               THEN EVP_EncryptUpdate(c, out, osize, outlp, inl)
               ELSE EVP_DecryptUpdate(c, out, osize, outlp, inl)

\* EVP_EncryptFinal_ex and EVP_DecryptFinal_ex have the same body.
FinalOutcome(op, c, out, outlp) ==
    IF c = NULL
    THEN Abort(op, c)
    ELSE IF cipher_ctx[c].padding /\ ~outlp
    THEN MemoryFault(op, c)
    ELSE IF cipher_ctx[c].padding /\ ~w_ok(out, cipher_ctx[c].data_remaining)
    THEN /\ fault' = "assert"
         /\ outl' = ToInt(cipher_ctx[c].data_remaining)
         /\ ret' = Ret(op, c, 0)
         /\ UNCHANGED <<keyvars, cipher_ctx, iv_supplied, hmacvars, mdvars, blockvars>>
    ELSE /\ outl' = IF cipher_ctx[c].padding THEN ToInt(cipher_ctx[c].data_remaining) ELSE outl
         /\ cipher_ctx' = [cipher_ctx EXCEPT ![c].data_processed = TRUE]
         /\ \E rv \in ZeroOrOne :
               ret' = IF cipher_ctx[c].padding
                      THEN RetIO(op, c, rv, Seen(IF out[1] THEN "ok" ELSE "NULL"), 0,
                                 ToInt(cipher_ctx[c].data_remaining), 0)
                      ELSE Ret(op, c, rv)
         /\ UNCHANGED <<keyvars, iv_supplied, hmacvars, mdvars, blockvars, fault>>

EVP_EncryptFinal_ex(c, out, outlp) ==
    /\ fault = "none"
    /\ FinalOutcome("EVP_EncryptFinal_ex", c, out, outlp)

EVP_DecryptFinal_ex(c, out, outlp) ==
    /\ fault = "none"
    /\ FinalOutcome("EVP_DecryptFinal_ex", c, out, outlp)

---------------------------------------------------------------------------
(* EVP_MD descriptors and HMAC_CTX. *)

EVP_md5 == [from |-> "EVP_MD5", md_size |-> 16]
EVP_sha1 == [from |-> "EVP_SHA1", md_size |-> 20]
EVP_sha224 == [from |-> "EVP_SHA224", md_size |-> 28]
EVP_sha256 == [from |-> "EVP_SHA256", md_size |-> 32]
EVP_sha384 == [from |-> "EVP_SHA384", md_size |-> 48]
EVP_sha512 == [from |-> "EVP_SHA512", md_size |-> 64]
Digests == {EVP_md5, EVP_sha1, EVP_sha224, EVP_sha256, EVP_sha384, EVP_sha512}

\* The null EVP_MD pointer, and a pointer to an EVP_MD that malloc returned
\* and nothing has written to.
NoMD == [from |-> "NULL", md_size |-> 0]
RawMD == [from |-> Indeterminate, md_size |-> 0]
MDPointers == Digests \cup {NoMD, RawMD}

\* The values a read of md->from can give.
FromOf(md) ==
    IF md.from = Indeterminate THEN {d.from : d \in Digests} \cup {"other"} ELSE {md.from}

\* EVP_MD_size past assert(md != NULL), by the value read from md->from.
EVP_MD_size(from) ==
    IF from = "EVP_MD5" THEN 16
    ELSE IF from = "EVP_SHA1" THEN 20
    ELSE IF from = "EVP_SHA224" THEN 28
    ELSE IF from = "EVP_SHA256" THEN 32
    ELSE IF from = "EVP_SHA384" THEN 48
    ELSE 64

HCtxs == DOMAIN hmac_ctx         \* the HMAC_CTX structs of the caller
HArgs == HCtxs \cup {NULL}

\* A struct of the caller nothing has written to: each field holds the set
\* of values a read of it can give.
RawHmacCtx == [is_initialized |-> BOOLEAN, md |-> MDPointers]

\* The values a read of ctx->is_initialized can give.
ReadInitialized(h) == IF h = NULL THEN {FALSE} ELSE hmac_ctx[h].is_initialized

\* A validity check that looks at the pointer only.
hmac_ctx_is_valid_PointerOnly(h, is_initialized) == h # NULL

hmac_ctx_is_valid(h, is_initialized) == h # NULL /\ is_initialized

\* A call that returns rv and leaves the HMAC_CTX with struct after.
HmacReturns(op, h, rv, after) ==
    /\ hmac_ctx' = [hmac_ctx EXCEPT ![h] = after]
    /\ ret' = Ret(op, h, rv)
    /\ UNCHANGED <<keyvars, ciphvars, hmac_len, mdvars, blockvars, fault>>

\* ctx_new->md = malloc(sizeof(EVP_MD)): null, or an EVP_MD nothing has written to.
HMAC_CTX_init(h) ==
    /\ fault = "none"
    /\ IF h = NULL
       THEN MemoryFault("HMAC_CTX_init", h)
       ELSE \E m \in {NoMD, RawMD} :
               HmacReturns("HMAC_CTX_init", h, 0, [is_initialized |-> {TRUE}, md |-> {m}])

HMAC_Init_ex(h, key, md) ==
    /\ fault = "none"
    /\ \E i \in ReadInitialized(h) :
          IF ~hmac_ctx_is_valid(h, i)
          THEN Abort("HMAC_Init_ex", h)
          ELSE \E rv \in ZeroOrOne :
                  HmacReturns("HMAC_Init_ex", h, rv,
                              IF md # NoMD /\ key THEN [hmac_ctx[h] EXCEPT !.md = {md}] ELSE hmac_ctx[h])

HMAC_Update(h) ==
    /\ fault = "none"
    /\ \E i \in ReadInitialized(h) :
          IF ~hmac_ctx_is_valid(h, i)
          THEN Abort("HMAC_Update", h)
          ELSE \E rv \in ZeroOrOne : Returns("HMAC_Update", h, rv)

\* md is one of Bufs: absent, present but smaller than the digest size, or
\* present and writable for it.  The value of __CPROVER_w_ok(md, md_size)
\* is not used; *len is stored before rv is chosen;
\* __CPROVER_assume(md != NULL) leaves no behaviour past it for a null md.
HMAC_Final(h, md, lenp) ==
    /\ fault = "none"
    /\ \E i \in ReadInitialized(h) :
          IF ~hmac_ctx_is_valid(h, i)
          THEN Abort("HMAC_Final", h)
          ELSE \E m \in hmac_ctx[h].md :
                  IF m = NoMD
                  THEN Abort("HMAC_Final", h)
                  ELSE IF ~lenp
                  THEN MemoryFault("HMAC_Final", h)
                  ELSE /\ md # "NULL"
                       /\ \E from \in FromOf(m) : hmac_len' = EVP_MD_size(from)
                       /\ \E rv \in ZeroOrOne :
                             ret' = RetIO("HMAC_Final", h, rv, md, 0, hmac_len', hmac_len')
                       /\ UNCHANGED <<keyvars, ciphvars, hmac_ctx, mdvars, blockvars, fault>>

---------------------------------------------------------------------------
(* EVP_DecodeBlock and EVP_EncodeBlock. *)

\* Division and remainder of C: the quotient is truncated toward zero.
CDiv(a, b) == IF a >= 0 THEN a \div b ELSE 0 - ((0 - a) \div b)
CRem(a, b) == a - b * CDiv(a, b)

\* __CPROVER_r_ok(p, n): p points to an object with n readable bytes.
r_ok(buf, n) == buf[1] /\ n <= buf[2]

\* The caller's codec arguments before any codec call.
BlockArgs(t, f, n) == [op |-> "none", t |-> t, f |-> f, n |-> n]
NoBlock == BlockArgs(<<FALSE, 0>>, <<FALSE, 0>>, 0)

\* A codec call that stops at a failed check.
BlockStops(op, t, f, n, why) ==
    /\ block' = [op |-> op, t |-> t, f |-> f, n |-> n]
    /\ fault' = why
    /\ ret' = Ret(op, NULL, 0)
    /\ UNCHANGED <<keyvars, ciphvars, hmacvars, mdvars>>

\* A codec call that returns rv, having checked t for wr writable bytes.
BlockReturns(op, t, f, n, rv, wr) ==
    /\ block' = [op |-> op, t |-> t, f |-> f, n |-> n]
    /\ ret' = RetIO(op, NULL, rv, IF t[1] THEN "buf" ELSE "NULL", 0, 0, wr)
    /\ UNCHANGED <<keyvars, ciphvars, hmacvars, mdvars, fault>>

\* written_length of EVP_DecodeBlock, were four bytes decoded to four.
DecodedLength_Unpacked(n) == CDiv(n, 4) * 4

\* int written_length = n / 4 * 3
DecodedLength(n) == CDiv(n, 4) * 3

EVP_DecodeBlock(t, f, n) ==
    /\ fault = "none"
    /\ IF n = 0
       THEN BlockReturns("EVP_DecodeBlock", t, f, n, 0, 0)
       ELSE \/ BlockReturns("EVP_DecodeBlock", t, f, n, 0 - 1, 0)
            \/ IF \/ CRem(n, 4) # 0
                  \/ ~r_ok(f, ToSizeT(n))
                  \/ ~w_ok(t, ToSizeT(DecodedLength(n)))
               THEN BlockStops("EVP_DecodeBlock", t, f, n, "assert")
               ELSE BlockReturns("EVP_DecodeBlock", t, f, n, n, DecodedLength(n))

\* written_length of EVP_EncodeBlock as the integers have it: n / 3 * 4,
\* 4 more for a final partial block, 1 more for the terminator.
EncodedLength(n) == CDiv(n, 3) * 4 + (IF CRem(n, 3) # 0 THEN 4 ELSE 0) + 1

\* An int computation that leaves the range of int is undefined: the
\* program stops there, or goes on with the value wrapped.
IntResult(v) == IF v \in IntRange THEN {v} ELSE {ToInt(v)}

EVP_EncodeBlock(t, f, n) ==
    /\ fault = "none"
    /\ IF ~w_ok(t, 1)
       THEN BlockStops("EVP_EncodeBlock", t, f, n, "assert")
       ELSE IF n = 0
       THEN BlockReturns("EVP_EncodeBlock", t, f, n, 0, 1)
       ELSE \/ BlockReturns("EVP_EncodeBlock", t, f, n, 0 - 1, 1)
            \/ IF ~r_ok(f, ToSizeT(n))
               THEN BlockStops("EVP_EncodeBlock", t, f, n, "assert")
               ELSE \/ /\ EncodedLength(n) \notin IntRange
                       /\ BlockStops("EVP_EncodeBlock", t, f, n, "overflow")
                    \/ \E written_length \in IntResult(EncodedLength(n)) :
                          IF ~w_ok(t, ToSizeT(written_length))
                          THEN BlockStops("EVP_EncodeBlock", t, f, n, "assert")
                          ELSE \E rv \in IntResult(written_length - 1) :
                                  BlockReturns("EVP_EncodeBlock", t, f, n, rv, written_length)

---------------------------------------------------------------------------
(* EVP_MD_CTX and the EVP_MD objects it points to. *)

\* The six static EVP_MD objects as they are at start-up, by identity.
StaticMD == [d \in {x.from : x \in Digests} |->
               [from |-> d, md_size |-> EVP_MD_size(d), st |-> "static"]]

\* The identities of the static EVP_MD objects; a pointer to one is its
\* identity, and "NULL" the null pointer.
MdNames == DOMAIN StaticMD

\* The contents __CPROVER_havoc_object can leave in an EVP_MD, and a read
\* of a released one can give.  Every value of from and md_size is
\* possible; the model follows the valid contents with the smallest, a
\* middle and the largest md_size, and one that is not valid.
HavocMD == {[from |-> x.from, md_size |-> x.md_size] : x \in {EVP_md5, EVP_sha256, EVP_sha512}}
              \cup {[from |-> "other", md_size |-> 0]}

\* The values a read of an unassigned unsigned int can give.
Garbage == {0, 1} \cup {x.md_size : x \in Digests}

MCtxs == DOMAIN md_ctx        \* the EVP_MD_CTX handles of the run
NoMdCtx == [st |-> "none", digest |-> "NULL", md_data |-> "NULL", pctx |-> NULL]
LiveMCtxs == {m \in MCtxs : md_ctx[m].st = "live"}

FreshMCtx ==
    CHOOSE m \in MCtxs : md_ctx[m].st = "none" /\ \A j \in MCtxs : j < m => md_ctx[j].st # "none"

\* The contents a read of the EVP_MD at p can give.
ReadMD(p) ==
    IF evp_md[p].st = "released"
    THEN HavocMD
    ELSE {[from |-> evp_md[p].from, md_size |-> evp_md[p].md_size]}

\* evp_md_is_valid past the null test, on the contents read.
evp_md_is_valid(md) ==
    \/ md.from = "EVP_MD5" /\ md.md_size = 16
    \/ md.from = "EVP_SHA1" /\ md.md_size = 20
    \/ md.from = "EVP_SHA224" /\ md.md_size = 28
    \/ md.from = "EVP_SHA256" /\ md.md_size = 32
    \/ md.from = "EVP_SHA384" /\ md.md_size = 48
    \/ md.from = "EVP_SHA512" /\ md.md_size = 64

\* A digest call that returns rv and leaves every object as it was; out is
\* the pointer it returns or was given.
MdReturns(op, m, rv, out) ==
    /\ ret' = RetOut(op, m, rv, out)
    /\ UNCHANGED <<keyvars, ciphvars, hmacvars, mdvars, blockvars, fault>>

EVP_MD_CTX_new ==
    /\ fault = "none"
    /\ \/ Returns("EVP_MD_CTX_new", NULL, 0)
       \/ /\ \E m \in MCtxs : md_ctx[m].st = "none"
          /\ md_ctx' = [md_ctx EXCEPT ![FreshMCtx] = [NoMdCtx EXCEPT !.st = "live"]]
          /\ ret' = Ret("EVP_MD_CTX_new", FreshMCtx, 0)
          /\ UNCHANGED <<keyvars, ciphvars, hmacvars, evp_md, md_s, blockvars, fault>>

\* EVP_MD_CTX_size: EVP_MD_size(ctx->digest) asserts the pointer and reads
\* from; a read of a released object is undefined and may stop the program.
EVP_MD_CTX_size(m) ==
    /\ fault = "none"
    /\ IF m = NULL
       THEN Abort("EVP_MD_CTX_size", m)
       ELSE IF md_ctx[m].digest = "NULL"
       THEN Abort("EVP_MD_CTX_size", m)
       ELSE \/ /\ evp_md[md_ctx[m].digest].st = "released"
               /\ MemoryFault("EVP_MD_CTX_size", m)
            \/ \E md \in ReadMD(md_ctx[m].digest) :
                  MdReturns("EVP_MD_CTX_size", m, EVP_MD_size(md.from), md_ctx[m].digest)

\* free(ctx->digest); free(ctx->md_data); EVP_PKEY_CTX_free(ctx->pctx) can
\* stop the program: ctx->digest, when not null, points to a static object,
\* and md_data may have been freed by an earlier cleanup.  ctx->pctx is
\* null in every EVP_MD_CTX.
ReleaseTraps(m) == md_ctx[m].digest # "NULL" \/ md_ctx[m].md_data = "freed"

\* The EVP_MD objects after free(ctx->digest) went through.
ReleasedMD(m) ==
    IF md_ctx[m].digest = "NULL"
    THEN evp_md
    ELSE [evp_md EXCEPT ![md_ctx[m].digest].st = "released"]

\* The body of EVP_MD_CTX_free and EVP_MD_CTX_cleanup on a context; after
\* is the EVP_MD_CTX it leaves.
Release(op, m, rv, after) ==
    \/ ReleaseTraps(m) /\ MemoryFault(op, m)
    \/ /\ evp_md' = ReleasedMD(m)
       /\ md_ctx' = [md_ctx EXCEPT ![m] = after]
       /\ ret' = Ret(op, m, rv)
       /\ UNCHANGED <<keyvars, ciphvars, hmacvars, md_s, blockvars, fault>>

EVP_MD_CTX_free(m) ==
    /\ fault = "none"
    /\ IF m = NULL
       THEN Returns("EVP_MD_CTX_free", m, 0)
       ELSE Release("EVP_MD_CTX_free", m, 0, NoMdCtx)

EVP_MD_CTX_cleanup(m) ==
    /\ fault = "none"
    /\ \/ Returns("EVP_MD_CTX_cleanup", m, 0)
       \/ IF m = NULL
          THEN Returns("EVP_MD_CTX_cleanup", m, 1)
          ELSE Release("EVP_MD_CTX_cleanup", m, 1,
                       [md_ctx[m] EXCEPT !.md_data = IF @ = "NULL" THEN @ ELSE "freed"])

EVP_MD_CTX_md(m) ==
    /\ fault = "none"
    /\ MdReturns("EVP_MD_CTX_md", m, 0, IF m = NULL THEN "NULL" ELSE md_ctx[m].digest)

\* The body of EVP_DigestInit_ex; type is NoMD or one of Digests, standing
\* for the pointer the descriptor function returns, and impl says whether
\* an engine is passed.  malloc(type->md_size) may return null.
DigestInit(op, m, type, impl) ==
    IF m = NULL \/ type = NoMD
    THEN Abort(op, m)
    ELSE \/ /\ evp_md[type.from].st = "released"
            /\ MemoryFault(op, m)
         \/ \E md \in ReadMD(type.from) :
               IF ~evp_md_is_valid(md) \/ impl
               THEN Abort(op, m)
               ELSE \/ MdReturns(op, m, 0, type.from)
                    \/ /\ \E data \in {"NULL", "alloc"} :
                             md_ctx' = [md_ctx EXCEPT ![m].digest = type.from,
                                                      ![m].md_data = data,
                                                      ![m].pctx = NULL]
                       /\ ret' = RetOut(op, m, 1, type.from)
                       /\ UNCHANGED <<keyvars, ciphvars, hmacvars, evp_md, md_s, blockvars, fault>>

EVP_DigestInit_ex(m, type, impl) ==
    /\ fault = "none"
    /\ DigestInit("EVP_DigestInit_ex", m, type, impl)

EVP_DigestInit(m, type) ==
    /\ fault = "none"
    /\ DigestInit("EVP_DigestInit", m, type, FALSE)

\* __CPROVER_havoc_object(ctx->digest): the EVP_MD the context points to is
\* given any contents.
EVP_DigestUpdate(m, d, cnt) ==
    /\ fault = "none"
    /\ IF m = NULL
       THEN Abort("EVP_DigestUpdate", m)
       ELSE IF md_ctx[m].digest = "NULL" \/ ~(cnt = 0 \/ r_ok(d, cnt))
       THEN Abort("EVP_DigestUpdate", m)
       ELSE \/ /\ evp_md[md_ctx[m].digest].st = "released"
               /\ MemoryFault("EVP_DigestUpdate", m)
            \/ /\ \E md \in HavocMD :
                     evp_md' = [evp_md EXCEPT ![md_ctx[m].digest].from = md.from,
                                              ![md_ctx[m].digest].md_size = md.md_size]
               /\ \E rv \in ZeroOrOne : ret' = Ret("EVP_DigestUpdate", m, rv)
               /\ UNCHANGED <<keyvars, ciphvars, hmacvars, md_ctx, md_s, blockvars, fault>>

\* The EVP_MD_CTX a digest final leaves, were the descriptor kept.
AfterFinal_Keeps(m) == md_ctx[m]

\* ctx->digest = NULL
AfterFinal(m) == [md_ctx[m] EXCEPT !.digest = "NULL"]

\* The body of EVP_DigestFinal_ex; md is the pair (present, size of the
\* object), s says whether the size pointer is passed.  The record of the
\* call keeps the size asserted of md in wr and the size read in len.
DigestFinal(op, m, md, s) ==
    IF m = NULL
    THEN Abort(op, m)
    ELSE IF md_ctx[m].digest = "NULL"
    THEN Abort(op, m)
    ELSE \/ /\ evp_md[md_ctx[m].digest].st = "released"
            /\ MemoryFault(op, m)
         \/ \E read \in ReadMD(md_ctx[m].digest) :
               IF ~w_ok(md, EVP_MD_size(read.from))
               THEN Abort(op, m)
               ELSE /\ md_ctx' = [md_ctx EXCEPT ![m] = AfterFinal(m)]
                    /\ \E rv \in ZeroOrOne :
                          /\ md_s' = IF ~s THEN md_s
                                     ELSE IF rv = 1 THEN {EVP_MD_size(read.from)}
                                     ELSE Garbage
                          /\ ret' = [RetIO(op, m, rv, md_ctx[m].digest, 0,
                                           EVP_MD_size(read.from), EVP_MD_size(read.from))
                                     EXCEPT !.stored = s]
                    /\ UNCHANGED <<keyvars, ciphvars, hmacvars, evp_md, blockvars, fault>>

EVP_DigestFinal_ex(m, md, s) ==
    /\ fault = "none"
    /\ DigestFinal("EVP_DigestFinal_ex", m, md, s)

EVP_DigestFinal(m, md, s) ==
    /\ fault = "none"
    /\ DigestFinal("EVP_DigestFinal", m, md, s)

EVP_MD_CTX_copy_ex(out, in) ==
    /\ fault = "none"
    /\ IF out = NULL
       THEN Abort("EVP_MD_CTX_copy_ex", out)
       ELSE IF in = NULL
       THEN Returns("EVP_MD_CTX_copy_ex", out, 0)
       ELSE \E rv \in ZeroOrOne : Returns("EVP_MD_CTX_copy_ex", out, rv)

\* EVP_MAX_MD_SIZE of <openssl/evp.h>: the size of the largest digest.
EVP_MAX_MD_SIZE == 64

\* The values a read of ctx->digest->md_size can give: what the object
\* holds, or, for a released object, the sizes of HavocMD and one above
\* EVP_MAX_MD_SIZE.
ReadMdSize(p) ==
    IF evp_md[p].st = "released"
    THEN {x.md_size : x \in HavocMD} \cup {EVP_MAX_MD_SIZE + 1}
    ELSE {evp_md[p].md_size}

\* A validity check that looks at the pointer only.
evp_md_ctx_is_valid_PointerOnly(m, md_size) == m # NULL

\* evp_md_ctx_is_valid, md_size being the value read from ctx->digest->md_size
\* when ctx and ctx->digest are not null.
evp_md_ctx_is_valid(m, md_size) ==
    /\ m # NULL
    /\ md_ctx[m].digest # "NULL"
    /\ md_size <= EVP_MAX_MD_SIZE
    /\ (md_ctx[m].pctx = NULL \/ evp_pkey_ctx_is_valid(md_ctx[m].pctx))

\* EVP_DigestVerifyInit; pctx and e say whether the pointer is passed.  The
\* assignments to the context are commented out in the source: the call
\* returns 0 or 1 and stores nothing.  A key that was destroyed is read
\* through a dangling pointer.
EVP_DigestVerifyInit(m, pctxp, type, e, k) ==
    /\ fault = "none"
    /\ IF m = NULL \/ pctxp \/ type = NoMD
       THEN Abort("EVP_DigestVerifyInit", m)
       ELSE \/ /\ evp_md[type.from].st = "released"
               /\ MemoryFault("EVP_DigestVerifyInit", m)
            \/ \E md \in ReadMD(type.from) :
                  IF ~evp_md_is_valid(md) \/ e
                  THEN Abort("EVP_DigestVerifyInit", m)
                  ELSE IF k # NULL /\ pkey[k].st = "freed"
                  THEN Abort("EVP_DigestVerifyInit", m) \/ MemoryFault("EVP_DigestVerifyInit", m)
                  ELSE IF ~evp_pkey_is_valid(k)
                  THEN Abort("EVP_DigestVerifyInit", m)
                  ELSE \E rv \in ZeroOrOne : MdReturns("EVP_DigestVerifyInit", m, rv, type.from)

\* nondet_int(): the model follows a negative value, 0, 1 and a larger one.
VerifyResults == {0 - 1, 0, 1, 2}

\* EVP_DigestVerifyFinal; sig is the pair (present, size of the object).
EVP_DigestVerifyFinal(m, sig, siglen) ==
    /\ fault = "none"
    /\ \/ /\ m # NULL
          /\ md_ctx[m].digest # "NULL"
          /\ evp_md[md_ctx[m].digest].st = "released"
          /\ MemoryFault("EVP_DigestVerifyFinal", m)
       \/ \E md_size \in (IF m = NULL \/ md_ctx[m].digest = "NULL"
                           THEN {0} ELSE ReadMdSize(md_ctx[m].digest)) :
             IF ~evp_md_ctx_is_valid(m, md_size) \/ ~sig[1] \/ ~r_ok(sig, siglen)
             THEN Abort("EVP_DigestVerifyFinal", m)
             ELSE \E rv \in VerifyResults :
                     MdReturns("EVP_DigestVerifyFinal", m, rv, md_ctx[m].digest)

---------------------------------------------------------------------------
(* The key-operation machine: one caller, any sequence of calls. *)

\* The handles a caller may pass: a live object, or NULL.
KeyArgs == LiveKeys \cup {NULL}
CtxArgs == LiveCtxs \cup {NULL}
ECArgs == ECKeys \cup {NULL}

\* The (buffer, length pointer, length) triples a caller may pass: a buffer
\* smaller than the declared length needs a length above 0, and an absent
\* length pointer has no value.
IOArgs ==
    {a \in Bufs \X BOOLEAN \X Lens :
        /\ (a[1] = "short" => a[3] > 0)
        /\ (~a[2] => a[3] = 0)}

\* The state after start-up with the given handles: no object exists yet but
\* the EC_KEYs, each held once by the caller, and the HMAC_CTX structs of the
\* caller, which nothing has written to; the four maximum sizes are fixed but
\* unknown.
InitAll(pkeys, ctxs, ecs, sizes, cctxs, hctxs, mctxs, blocks) ==
    /\ pkey = [k \in pkeys |-> NoPKey]
    /\ held = {}
    /\ pctx = [c \in ctxs |-> NoCtx]
    /\ ec_refs = [e \in ecs |-> 1]
    /\ maxsize \in [ProduceOps -> sizes]
    /\ owed = [k \in pkeys |-> 0]
    /\ destroyed = [k \in pkeys |-> 0]
    /\ taken = [k \in pkeys |-> 0]
    /\ cipher_ctx = [c \in cctxs |-> NoCipherCtx]
    /\ outl = 0
    /\ iv_supplied = {}
    /\ hmac_ctx = [h \in hctxs |-> RawHmacCtx]
    /\ hmac_len = 0
    /\ md_ctx = [m \in mctxs |-> NoMdCtx]
    /\ evp_md = StaticMD
    /\ md_s = {0}
    /\ block \in blocks
    /\ ret = Ret("none", NULL, 0)
    /\ fault = "none"

(* Spec: one key, one context, the init and produce operations. *)

Init == InitAll({1}, {1}, {1}, Sizes, {}, {}, {}, {NoBlock})

Next ==
    \/ EVP_PKEY_new
    \/ \E k \in KeyArgs, e \in ECArgs : EVP_PKEY_set1_EC_KEY(k, e)
    \/ \E k \in KeyArgs : EVP_PKEY_CTX_new(k)
    \/ EVP_PKEY_CTX_new_id
    \/ \E c \in CtxArgs : EVP_PKEY_derive_init(c)
    \/ \E c \in CtxArgs : EVP_PKEY_sign_init(c)
    \/ \E c \in CtxArgs : EVP_PKEY_encrypt_init(c)
    \/ \E c \in CtxArgs : EVP_PKEY_decrypt_init(c)
    \/ \E c \in CtxArgs, a \in IOArgs, tbs \in BOOLEAN : EVP_PKEY_sign(c, a[1], a[2], a[3], tbs)
    \/ \E c \in CtxArgs, a \in IOArgs : EVP_PKEY_derive(c, a[1], a[2], a[3])
    \/ \E c \in CtxArgs, a \in IOArgs : EVP_PKEY_encrypt(c, a[1], a[2], a[3])
    \/ \E c \in CtxArgs, a \in IOArgs : EVP_PKEY_decrypt(c, a[1], a[2], a[3])

Spec == Init /\ [][Next]_vars

(* SpecLife: one key, one context slot, every key and context operation. *)

NextLife ==
    \/ EVP_PKEY_new
    \/ \E k \in KeyArgs : EVP_PKEY_get0_EC_KEY(k)
    \/ \E k \in KeyArgs, e \in ECArgs : EVP_PKEY_set1_EC_KEY(k, e)
    \/ \E k \in held \cup {NULL} : EVP_PKEY_free(k)
    \/ \E k \in KeyArgs : EVP_PKEY_CTX_new(k)
    \/ EVP_PKEY_CTX_new_id
    \/ \E c \in CtxArgs : EVP_PKEY_derive_init(c)
    \/ \E c \in CtxArgs : EVP_PKEY_sign_init(c)
    \/ \E c \in CtxArgs : EVP_PKEY_encrypt_init(c)
    \/ \E c \in CtxArgs : EVP_PKEY_decrypt_init(c)
    \/ \E c \in CtxArgs, a \in IOArgs, tbs \in BOOLEAN : EVP_PKEY_sign(c, a[1], a[2], a[3], tbs)
    \/ \E c \in CtxArgs, a \in IOArgs : EVP_PKEY_derive(c, a[1], a[2], a[3])
    \/ \E c \in CtxArgs, a \in IOArgs : EVP_PKEY_encrypt(c, a[1], a[2], a[3])
    \/ \E c \in CtxArgs, a \in IOArgs : EVP_PKEY_decrypt(c, a[1], a[2], a[3])
    \/ \E c \in CtxArgs, anytype \in BOOLEAN : EVP_PKEY_CTX_ctrl(c, anytype)
    \/ \E c \in CtxArgs, pad \in PadArgs : EVP_PKEY_CTX_set_rsa_padding(c, pad)
    \/ \E c \in CtxArgs : EVP_PKEY_CTX_set_rsa_oaep_md(c)
    \/ \E c \in CtxArgs : EVP_PKEY_CTX_set_rsa_mgf1_md(c)
    \/ \E c \in CtxArgs : EVP_PKEY_CTX_free(c)

InitLife == InitAll({1}, {1}, {1}, {MaxSize}, {}, {}, {}, {NoBlock})

SpecLife == InitLife /\ [][NextLife]_vars

(* SpecMode: one key, one context slot, every operation of the context;
   the produce operations are called as a size query or with a buffer of
   the maximum size. *)

ModeIOArgs == {<<"NULL", TRUE, 0>>, <<"ok", TRUE, MaxSize>>}

NextMode ==
    \/ EVP_PKEY_new
    \/ \E k \in held \cup {NULL} : EVP_PKEY_free(k)
    \/ \E k \in KeyArgs : EVP_PKEY_CTX_new(k)
    \/ EVP_PKEY_CTX_new_id
    \/ \E c \in CtxArgs : EVP_PKEY_derive_init(c)
    \/ \E c \in CtxArgs : EVP_PKEY_sign_init(c)
    \/ \E c \in CtxArgs : EVP_PKEY_encrypt_init(c)
    \/ \E c \in CtxArgs : EVP_PKEY_decrypt_init(c)
    \/ \E c \in CtxArgs, a \in ModeIOArgs : EVP_PKEY_sign(c, a[1], a[2], a[3], TRUE)
    \/ \E c \in CtxArgs, a \in ModeIOArgs : EVP_PKEY_derive(c, a[1], a[2], a[3])
    \/ \E c \in CtxArgs, a \in ModeIOArgs : EVP_PKEY_encrypt(c, a[1], a[2], a[3])
    \/ \E c \in CtxArgs, a \in ModeIOArgs : EVP_PKEY_decrypt(c, a[1], a[2], a[3])
    \/ \E c \in CtxArgs, anytype \in BOOLEAN : EVP_PKEY_CTX_ctrl(c, anytype)
    \/ \E c \in CtxArgs, pad \in PadArgs : EVP_PKEY_CTX_set_rsa_padding(c, pad)
    \/ \E c \in CtxArgs : EVP_PKEY_CTX_set_rsa_oaep_md(c)
    \/ \E c \in CtxArgs : EVP_PKEY_CTX_set_rsa_mgf1_md(c)
    \/ \E c \in CtxArgs : EVP_PKEY_CTX_free(c)

InitMode == InitAll({1}, {1}, {}, {MaxSize}, {}, {}, {}, {NoBlock})

SpecMode == InitMode /\ [][NextMode]_vars

(* SpecBind: two keys that may share one EC_KEY without holding a
   reference to it, two context slots; EVP_PKEY_CTX_new is called with
   every key handle the caller ever had. *)

AnyKeyArgs == {k \in PKeys : pkey[k].st # "none"} \cup {NULL}

NextBind ==
    \/ EVP_PKEY_new
    \/ \E k \in KeyArgs, e \in ECKeys : EVP_PKEY_set1_EC_KEY(k, e)
    \/ \E k \in KeyArgs, e \in ECKeys : evp_pkey_set0_ec_key(k, e)
    \/ \E k \in held \cup {NULL} : EVP_PKEY_free(k)
    \/ \E k \in AnyKeyArgs : EVP_PKEY_CTX_new(k)
    \/ \E c \in CtxArgs : EVP_PKEY_sign_init(c)
    \/ \E c \in CtxArgs : EVP_PKEY_CTX_free(c)

InitBind == InitAll({1, 2}, {1, 2}, {1}, {MaxSize}, {}, {}, {}, {NoBlock})

SpecBind == InitBind /\ [][NextBind]_vars

(* SpecRef: two keys, three context slots, creation, attach and release. *)

NextRef ==
    \/ EVP_PKEY_new
    \/ \E k \in KeyArgs : EVP_PKEY_get0_EC_KEY(k)
    \/ \E k \in KeyArgs, e \in ECArgs : EVP_PKEY_set1_EC_KEY(k, e)
    \/ \E k \in held \cup {NULL} : EVP_PKEY_free(k)
    \/ \E k \in KeyArgs : EVP_PKEY_CTX_new(k)
    \/ EVP_PKEY_CTX_new_id
    \/ \E c \in CtxArgs : EVP_PKEY_CTX_free(c)

InitRef == InitAll({1, 2}, {1, 2, 3}, {1}, {MaxSize}, {}, {}, {}, {NoBlock})

SpecRef == InitRef /\ [][NextRef]_vars

(* SpecCipher: one cipher context slot, every cipher operation. *)

CCtxArgs == LiveCCtxs \cup {NULL}

\* The cipher arguments a caller passes: none, a GCM cipher, the ECB cipher.
CipherArgs == {NoCipher, EVP_aes_256_gcm, EVP_aes_128_ecb}

\* The (arg, ptr) pairs a caller may pass to a control, ptr being absent or
\* pointing to an object of 1 or MaxArg bytes.
CtrlPtrArgs == CtrlArgs \X ({<<FALSE, 0>>} \cup {<<TRUE, n>> : n \in {1, MaxArg}})

\* The (out, size of the object out points to) pairs a caller may pass.
OutArgs == {<<FALSE, 0>>} \cup {<<TRUE, n>> : n \in ObjSizes}

NextCipher ==
    \/ EVP_CIPHER_CTX_new
    \/ \E c \in CCtxArgs : EVP_CIPHER_CTX_init(c)
    \/ \E c \in CCtxArgs, cipher \in CipherArgs, iv \in BOOLEAN, enc \in EncArgs :
          EVP_CipherInit_ex(c, cipher, iv, enc)
    \/ \E c \in CCtxArgs, type \in CtrlTypes, a \in CtrlPtrArgs :
          EVP_CIPHER_CTX_ctrl(c, type, a[1], a[2])
    \/ \E c \in CCtxArgs : EVP_CIPHER_CTX_free(c)
    \/ \E c \in CCtxArgs, type \in CipherArgs, iv \in BOOLEAN : EVP_EncryptInit_ex(c, type, iv)
    \/ \E c \in CCtxArgs, type \in CipherArgs, iv \in BOOLEAN : EVP_DecryptInit_ex(c, type, iv)
    \/ \E c \in CCtxArgs, o \in OutArgs, outlp \in BOOLEAN, inl \in Inls :
          EVP_CipherUpdate(c, o[1], o[2], outlp, inl)
    \/ \E c \in CCtxArgs, o \in OutArgs, outlp \in BOOLEAN, inl \in Inls :
          EVP_EncryptUpdate(c, o[1], o[2], outlp, inl)
    \/ \E c \in CCtxArgs, o \in OutArgs, outlp \in BOOLEAN, inl \in Inls :
          EVP_DecryptUpdate(c, o[1], o[2], outlp, inl)
    \/ \E c \in CCtxArgs, out \in OutArgs, outlp \in BOOLEAN : EVP_EncryptFinal_ex(c, out, outlp)
    \/ \E c \in CCtxArgs, out \in OutArgs, outlp \in BOOLEAN : EVP_DecryptFinal_ex(c, out, outlp)

InitCipher == InitAll({}, {}, {}, {MaxSize}, {1}, {}, {}, {NoBlock})

SpecCipher == InitCipher /\ [][NextCipher]_vars

(* SpecAttach: two keys and two EC_KEYs, creation, attachment and release
   of the keys. *)

NextAttach ==
    \/ EVP_PKEY_new
    \/ \E k \in KeyArgs : EVP_PKEY_get0_EC_KEY(k)
    \/ \E k \in KeyArgs, e \in ECArgs : EVP_PKEY_set1_EC_KEY(k, e)
    \/ \E k \in held \cup {NULL} : EVP_PKEY_free(k)

InitAttach == InitAll({1, 2}, {}, {1, 2}, {MaxSize}, {}, {}, {}, {NoBlock})

SpecAttach == InitAttach /\ [][NextAttach]_vars

(* SpecTerminal: one cipher context, every cipher operation on it with a
   configured cipher and a length pointer that is present. *)

TerminalInls == {0, MaxInl}

NextTerminal ==
    \/ EVP_CIPHER_CTX_new
    \/ \E c \in CCtxArgs : EVP_CIPHER_CTX_init(c)
    \/ \E c \in CCtxArgs, iv \in BOOLEAN, enc \in {0 - 1, 0, 1} :
          EVP_CipherInit_ex(c, EVP_aes_256_gcm, iv, enc)
    \/ \E c \in CCtxArgs, type \in CtrlTypes, a \in CtrlPtrArgs :
          EVP_CIPHER_CTX_ctrl(c, type, a[1], a[2])
    \/ \E c \in CCtxArgs : EVP_CIPHER_CTX_free(c)
    \/ \E c \in CCtxArgs, iv \in BOOLEAN : EVP_EncryptInit_ex(c, EVP_aes_256_gcm, iv)
    \/ \E c \in CCtxArgs, iv \in BOOLEAN : EVP_DecryptInit_ex(c, EVP_aes_256_gcm, iv)
    \/ \E c \in CCtxArgs, o \in OutArgs, inl \in TerminalInls :
          EVP_CipherUpdate(c, o[1], o[2], TRUE, inl)
    \/ \E c \in CCtxArgs, o \in OutArgs, inl \in TerminalInls :
          EVP_EncryptUpdate(c, o[1], o[2], TRUE, inl)
    \/ \E c \in CCtxArgs, o \in OutArgs, inl \in TerminalInls :
          EVP_DecryptUpdate(c, o[1], o[2], TRUE, inl)
    \/ \E c \in CCtxArgs, out \in OutArgs : EVP_EncryptFinal_ex(c, out, TRUE)
    \/ \E c \in CCtxArgs, out \in OutArgs : EVP_DecryptFinal_ex(c, out, TRUE)

InitTerminal == InitAll({}, {}, {}, {MaxSize}, {1}, {}, {}, {NoBlock})

SpecTerminal == InitTerminal /\ [][NextTerminal]_vars

(* SpecBlock: EVP_DecodeBlock and EVP_EncodeBlock called with the
   arguments the caller has: any int n, an output buffer of any size up to
   one byte more than the longest encoding, an input buffer that is absent,
   of one byte or of INT_MAX bytes. *)

BlockOut == {<<FALSE, 0>>} \cup {<<TRUE, z>> : z \in 0..(EncodedLength(INT_MAX) + 1)}
BlockIn == {<<FALSE, 0>>, <<TRUE, 1>>, <<TRUE, INT_MAX>>}

NextBlock ==
    \/ EVP_DecodeBlock(block.t, block.f, block.n)
    \/ EVP_EncodeBlock(block.t, block.f, block.n)

InitBlock ==
    InitAll({}, {}, {}, {MaxSize}, {}, {}, {},
            {BlockArgs(t, f, n) : t \in BlockOut, f \in BlockIn, n \in IntRange})

SpecBlock == InitBlock /\ [][NextBlock]_vars

(* SpecDigest: one digest context, every digest operation on it with two of
   the six descriptors. *)

MArgs == LiveMCtxs \cup {NULL}
MdTypeArgs == {NoMD, EVP_md5, EVP_sha256}

\* The (d, cnt) pairs a caller passes to an update: nothing, one readable
\* byte, one byte at a null pointer.
MdDataArgs == {<<<<FALSE, 0>>, 0>>, <<<<TRUE, 1>>, 1>>, <<<<FALSE, 0>>, 1>>}

\* The output buffers a caller passes to a final: none, and objects of the
\* size of an MD5 digest, one byte less, and of the largest digest.
MdOutArgs == {<<FALSE, 0>>, <<TRUE, 15>>, <<TRUE, 16>>, <<TRUE, 64>>}

NextDigest ==
    \/ EVP_MD_CTX_new
    \/ \E m \in MArgs : EVP_MD_CTX_size(m)
    \/ \E m \in MArgs : EVP_MD_CTX_free(m)
    \/ \E m \in MArgs : EVP_MD_CTX_cleanup(m)
    \/ \E m \in MArgs : EVP_MD_CTX_md(m)
    \/ \E m \in MArgs, type \in MdTypeArgs, impl \in BOOLEAN : EVP_DigestInit_ex(m, type, impl)
    \/ \E m \in MArgs, type \in MdTypeArgs : EVP_DigestInit(m, type)
    \/ \E m \in MArgs, a \in MdDataArgs : EVP_DigestUpdate(m, a[1], a[2])
    \/ \E m \in MArgs, md \in MdOutArgs, s \in BOOLEAN : EVP_DigestFinal_ex(m, md, s)
    \/ \E m \in MArgs, md \in MdOutArgs, s \in BOOLEAN : EVP_DigestFinal(m, md, s)
    \/ \E out \in MArgs, in \in MArgs : EVP_MD_CTX_copy_ex(out, in)

InitDigest == InitAll({}, {}, {}, {MaxSize}, {}, {}, {1}, {NoBlock})

SpecDigest == InitDigest /\ [][NextDigest]_vars

(* SpecVerify: one key with its EC_KEY and two digest contexts; the digest
   lifecycle without updates, and the verify and copy operations called
   with every key handle the caller ever had. *)

VerifySigArgs == {<<<<FALSE, 0>>, 0>>, <<<<TRUE, 1>>, 1>>, <<<<TRUE, 1>>, 2>>}

\* The (pctx, e) pairs of a verify-init: neither passed, or one of them.
VerifyPtrArgs == {<<FALSE, FALSE>>, <<TRUE, FALSE>>, <<FALSE, TRUE>>}

NextVerify ==
    \/ EVP_PKEY_new
    \/ \E k \in KeyArgs, e \in ECKeys : EVP_PKEY_set1_EC_KEY(k, e)
    \/ \E k \in held \cup {NULL} : EVP_PKEY_free(k)
    \/ EVP_MD_CTX_new
    \/ \E m \in MArgs : EVP_MD_CTX_free(m)
    \/ \E m \in MArgs : EVP_MD_CTX_cleanup(m)
    \/ \E m \in MArgs, type \in MdTypeArgs : EVP_DigestInit_ex(m, type, FALSE)
    \/ \E m \in MArgs : EVP_DigestFinal_ex(m, <<TRUE, EVP_MAX_MD_SIZE>>, FALSE)
    \/ \E m \in MArgs, p \in VerifyPtrArgs, type \in MdTypeArgs, k \in AnyKeyArgs :
          EVP_DigestVerifyInit(m, p[1], type, p[2], k)
    \/ \E m \in MArgs, a \in VerifySigArgs : EVP_DigestVerifyFinal(m, a[1], a[2])
    \/ \E out \in MArgs, in \in MArgs : EVP_MD_CTX_copy_ex(out, in)

InitVerify == InitAll({1}, {}, {1}, {MaxSize}, {}, {}, {1, 2}, {NoBlock})

SpecVerify == InitVerify /\ [][NextVerify]_vars

(* SpecHmac: one HMAC_CTX of the caller, every HMAC operation. *)

NextHmac ==
    \/ \E h \in HArgs : HMAC_CTX_init(h)
    \/ \E h \in HArgs, key \in BOOLEAN, md \in Digests \cup {NoMD} : HMAC_Init_ex(h, key, md)
    \/ \E h \in HArgs : HMAC_Update(h)
    \/ \E h \in HArgs, md \in Bufs, lenp \in BOOLEAN : HMAC_Final(h, md, lenp)

InitHmac == InitAll({}, {}, {}, {MaxSize}, {}, {1}, {}, {NoBlock})

SpecHmac == InitHmac /\ [][NextHmac]_vars

(* SpecOutcome: the operations that stand for a provider that may fail,
   each called on a live object of its kind with arguments its assertions
   accept or reject; a run has objects of one kind. *)

OutcomeTypes == {EVP_md5, EVP_sha256}
OutcomeData == {<<<<FALSE, 0>>, 0>>, <<<<TRUE, 1>>, 1>>}
OutcomeMdOut == {<<TRUE, 16>>, <<TRUE, 64>>}
OutcomeCiphers == {NoCipher, EVP_aes_256_gcm}
OutcomeCtrl == {<<1, <<TRUE, 1>>>>, <<0, <<FALSE, 0>>>>}
OutcomeOut == {<<FALSE, 0>>, <<TRUE, MaxObj>>}

NextOutcome ==
    \/ EVP_PKEY_new
    \/ \E k \in LiveKeys : EVP_PKEY_CTX_new(k)
    \/ EVP_PKEY_CTX_new_id
    \/ \E c \in LiveCtxs : EVP_PKEY_derive_init(c)
    \/ \E c \in LiveCtxs : EVP_PKEY_sign_init(c)
    \/ \E c \in LiveCtxs : EVP_PKEY_encrypt_init(c)
    \/ \E c \in LiveCtxs : EVP_PKEY_decrypt_init(c)
    \/ \E c \in LiveCtxs, a \in ModeIOArgs : EVP_PKEY_sign(c, a[1], a[2], a[3], TRUE)
    \/ \E c \in LiveCtxs, a \in ModeIOArgs : EVP_PKEY_derive(c, a[1], a[2], a[3])
    \/ \E c \in LiveCtxs, a \in ModeIOArgs : EVP_PKEY_encrypt(c, a[1], a[2], a[3])
    \/ \E c \in LiveCtxs, a \in ModeIOArgs : EVP_PKEY_decrypt(c, a[1], a[2], a[3])
    \/ \E c \in LiveCtxs : EVP_PKEY_CTX_ctrl(c, TRUE)
    \/ EVP_MD_CTX_new
    \/ \E m \in LiveMCtxs, type \in OutcomeTypes : EVP_DigestInit_ex(m, type, FALSE)
    \/ \E m \in LiveMCtxs, type \in OutcomeTypes : EVP_DigestInit(m, type)
    \/ \E m \in LiveMCtxs, a \in OutcomeData : EVP_DigestUpdate(m, a[1], a[2])
    \/ \E m \in LiveMCtxs, md \in OutcomeMdOut, sp \in BOOLEAN : EVP_DigestFinal_ex(m, md, sp)
    \/ \E m \in LiveMCtxs, md \in OutcomeMdOut, sp \in BOOLEAN : EVP_DigestFinal(m, md, sp)
    \/ \E out \in LiveMCtxs, in \in LiveMCtxs : EVP_MD_CTX_copy_ex(out, in)
    \/ EVP_CIPHER_CTX_new
    \/ \E c \in LiveCCtxs, cipher \in OutcomeCiphers, iv \in BOOLEAN, enc \in {0 - 1, 0, 1} :
          EVP_CipherInit_ex(c, cipher, iv, enc)
    \/ \E c \in LiveCCtxs, type \in CtrlTypes, a \in OutcomeCtrl :
          EVP_CIPHER_CTX_ctrl(c, type, a[1], a[2])
    \/ \E c \in LiveCCtxs, iv \in BOOLEAN : EVP_EncryptInit_ex(c, EVP_aes_256_gcm, iv)
    \/ \E c \in LiveCCtxs, iv \in BOOLEAN : EVP_DecryptInit_ex(c, EVP_aes_256_gcm, iv)
    \/ \E c \in LiveCCtxs, o \in OutcomeOut, inl \in TerminalInls :
          EVP_CipherUpdate(c, o[1], o[2], TRUE, inl)
    \/ \E c \in LiveCCtxs, o \in OutcomeOut, inl \in TerminalInls :
          EVP_EncryptUpdate(c, o[1], o[2], TRUE, inl)
    \/ \E c \in LiveCCtxs, o \in OutcomeOut, inl \in TerminalInls :
          EVP_DecryptUpdate(c, o[1], o[2], TRUE, inl)
    \/ \E c \in LiveCCtxs, out \in OutcomeOut : EVP_EncryptFinal_ex(c, out, TRUE)
    \/ \E c \in LiveCCtxs, out \in OutcomeOut : EVP_DecryptFinal_ex(c, out, TRUE)
    \/ \E h \in HCtxs : HMAC_CTX_init(h)
    \/ \E h \in HCtxs, key \in BOOLEAN, md \in {NoMD, EVP_sha256} : HMAC_Init_ex(h, key, md)
    \/ \E h \in HCtxs : HMAC_Update(h)
    \/ \E h \in HCtxs : HMAC_Final(h, "ok", TRUE)

InitOutcomes ==
    \/ InitAll({1}, {1}, {}, {MaxSize}, {}, {}, {}, {NoBlock})
    \/ InitAll({}, {}, {}, {MaxSize}, {1}, {}, {}, {NoBlock})
    \/ InitAll({}, {}, {}, {MaxSize}, {}, {1}, {}, {NoBlock})
    \/ InitAll({}, {}, {}, {MaxSize}, {}, {}, {1}, {NoBlock})

SpecOutcome == InitOutcomes /\ [][NextOutcome]_vars

---------------------------------------------------------------------------
(* Properties of the key object and the key-operation context. *)

\* The mode flag a produce operation belongs to.
InitializedFor(c, op) ==
    CASE op = "EVP_PKEY_sign" -> pctx[c].is_initialized_for_signing
      [] op = "EVP_PKEY_derive" -> pctx[c].is_initialized_for_derivation
      [] op = "EVP_PKEY_encrypt" -> pctx[c].is_initialized_for_encryption
      [] op = "EVP_PKEY_decrypt" -> pctx[c].is_initialized_for_decryption

\* C1: a produce operation (sign, derive, encrypt, decrypt) called on a context
\* whose matching is_initialized_for_* flag is false fails an assertion, before
\* anything is stored through the length pointer or written to the buffer and
\* before a result is returned.
C1_UninitializedRejected ==
    [][(/\ ret'.op \in ProduceOps
        /\ ret'.obj # NULL
        /\ ~InitializedFor(ret'.obj, ret'.op))
       => (fault' = "assert" /\ ~ret'.stored /\ ret'.wr = 0)]_vars

\* The live contexts bound to key k.
BoundCtxs(k) == {c \in Ctxs : pctx[c].st = "live" /\ pctx[c].pkey = k}

ReleaseOps == {"EVP_PKEY_free", "EVP_PKEY_CTX_free"}

RefCountBalanced ==
    \A k \in PKeys :
        pkey[k].st = "live" =>
            /\ pkey[k].references = (IF k \in held THEN 1 ELSE 0) + Cardinality(BoundCtxs(k))
            /\ pkey[k].references > 0

RefCountStep ==
    \A k \in PKeys :
        /\ (pkey[k].st = "live" /\ pkey'[k].st = "live"
              /\ pkey'[k].references # pkey[k].references)
           => \/ /\ ret'.op = "EVP_PKEY_CTX_new"
                 /\ pkey'[k].references = pkey[k].references + 1
              \/ /\ ret'.op \in ReleaseOps
                 /\ pkey'[k].references = pkey[k].references - 1
        /\ (pkey[k].st = "live" /\ pkey'[k].st # "live") => ret'.op \in ReleaseOps
        /\ ret'.op = "EVP_PKEY_get0_EC_KEY" => pkey' = pkey

\* C2: after any sequence of key and context operations, every key that has
\* not been destroyed has reference count = (1 if the caller still holds its
\* handle, else 0) + the number of live contexts bound to it, and the count is
\* positive; only EVP_PKEY_CTX_new (+1) and EVP_PKEY_free / EVP_PKEY_CTX_free
\* (-1) change it, and EVP_PKEY_get0_EC_KEY changes no key.
C2_RefCount == [](RefCountBalanced) /\ [][RefCountStep]_vars

\* A key no longer held by the caller is kept alive by its one bound context,
\* and a produce operation has just returned on that context.
C2_Witness ==
    \E k \in PKeys :
        /\ pkey[k].st = "live" /\ k \notin held /\ pkey[k].references = 1
        /\ BoundCtxs(k) # {}
        /\ ret.op \in ProduceOps /\ ret.rv = 1 /\ fault = "none"

DestroyedOnce ==
    \A k \in PKeys :
        /\ destroyed[k] = (IF pkey[k].st # "none" /\ owed[k] = 0 THEN 1 ELSE 0)
        /\ (pkey[k].st = "freed") = (destroyed[k] = 1)

ReleaseStep ==
    \A k \in PKeys :
        owed'[k] < owed[k] =>
            IF owed'[k] = 0
            THEN /\ destroyed'[k] = destroyed[k] + 1
                 /\ \A e \in ECKeys :
                        ec_refs'[e] = IF e = pkey[k].ec_key THEN ec_refs[e] - 1 ELSE ec_refs[e]
            ELSE /\ destroyed'[k] = destroyed[k]
                 /\ pkey'[k].st = "live"
                 /\ ec_refs' = ec_refs

\* C3: a key that has taken N references (one at EVP_PKEY_new, one per
\* EVP_PKEY_CTX_new on it) is destroyed exactly once, by the release that
\* brings the outstanding references to zero and by no earlier one, whatever
\* the interleaving of EVP_PKEY_free and EVP_PKEY_CTX_free; that release, and
\* no other, drops one reference of the stored EC_KEY.
C3_DestroyedOnce == [](DestroyedOnce) /\ [][ReleaseStep]_vars

\* A key that took three references and holds an EC_KEY has been destroyed
\* by an EVP_PKEY_CTX_free, and the EC_KEY is back to the caller's reference.
C3_Witness ==
    \E k \in PKeys :
        /\ taken[k] >= 3 /\ owed[k] = 0 /\ destroyed[k] = 1
        /\ ret.op = "EVP_PKEY_CTX_free"
        /\ \E e \in ECKeys : ec_refs[e] = 1

\* C4: when EVP_PKEY_sign with a null buffer has just returned success with
\* *siglen = M, a following EVP_PKEY_sign on the same context with a buffer
\* writable for M bytes and *siglen = M fails no assertion, and if it returns
\* success the length it reports is at most M.
C4_SignWithinQueriedSize ==
    [][(/\ ret.op = "EVP_PKEY_sign" /\ ret.rv = 1 /\ ret.out = "NULL" /\ ret.stored
        /\ EVP_PKEY_sign(ret.obj, "ok", TRUE, ret.len, TRUE))
       => (/\ fault' = "none"
           /\ (ret'.rv = 1 => (ret'.stored /\ ret'.len <= ret.len /\ ret'.wr <= ret.len)))]_vars

\* On a context bound to a key that holds an EC_KEY, EVP_PKEY_sign has
\* filled a buffer of the full, non-zero, queried size.
C4_Witness ==
    /\ ret.op = "EVP_PKEY_sign" /\ ret.rv = 1 /\ ret.out = "buf" /\ fault = "none"
    /\ ret.cap = max_signature_size /\ ret.len = ret.cap /\ ret.cap > 0
    /\ pctx[ret.obj].pkey # NULL
    /\ pkey[pctx[ret.obj].pkey].ec_key # NULL

\* C5: when derive, encrypt or decrypt is given an output buffer and returns
\* success, the length it reports is at most min(C, the operation's maximum
\* size), C being the capacity the caller declared in *len.
C5_BoundedByMaximum ==
    (/\ ret.op \in ProduceOps \ {"EVP_PKEY_sign"}
     /\ ret.rv = 1 /\ ret.out = "buf" /\ fault = "none")
    => ret.len <= Min(ret.cap, maxsize[ret.op])

QuerySucceeded ==
    ret.op \in ProduceOps /\ ret.rv = 1 /\ ret.out = "NULL" /\ fault = "none"

\* C6: the four maximum sizes never change, and every successful size query
\* (null output buffer) of sign, derive, encrypt or decrypt reports the
\* maximum size of its operation: so any two successful size queries of the
\* same operation report the same size, whatever is called in between.
C6_QueryIdempotent ==
    [][/\ maxsize' = maxsize
       /\ QuerySucceeded' => (ret'.stored /\ ret'.len = maxsize[ret'.op])]_vars

\* A size query of EVP_PKEY_derive has reported a non-zero maximum.
C6_Witness ==
    QuerySucceeded /\ ret.op = "EVP_PKEY_derive" /\ ret.len = MaxSize

\* C7: when sign, derive, encrypt or decrypt returns a non-positive result,
\* nothing was written to the output buffer or stored through the length
\* pointer, and the contexts (mode flags, padding mode) and the keys
\* (reference counts) are as before the call.
C7_FailureChangesNothing ==
    [][(ret'.op \in ProduceOps /\ fault' = "none" /\ ret'.rv <= 0)
       => (~ret'.stored /\ ret'.wr = 0 /\ pctx' = pctx /\ pkey' = pkey)]_vars

\* EVP_PKEY_decrypt with an output buffer has failed on a context that has a
\* mode flag and a padding mode set.
C7_Witness ==
    /\ ret.op = "EVP_PKEY_decrypt" /\ ret.rv < 0 /\ ret.out = "buf" /\ fault = "none"
    /\ pctx[ret.obj].is_initialized_for_decryption
    /\ pctx[ret.obj].rsa_pad = RSA_PKCS1_OAEP_PADDING

---------------------------------------------------------------------------
(* Properties of the cipher context and the HMAC context. *)

\* The operations that report a length through *outl or *len.  The result
\* of EVP_CipherUpdate is the result of the update it hands the call to.
UpdateOps == {"EVP_EncryptUpdate", "EVP_DecryptUpdate"}
FinalOps == {"EVP_EncryptFinal_ex", "EVP_DecryptFinal_ex"}

\* C8: a cipher update, a cipher final or HMAC_Final that returns 0 leaves
\* the reported length (*outl, *len), and the remaining-bytes counter and
\* the data-processed flag of every cipher context, as they were before
\* the call.
C8_FailureLeavesLengths ==
    [][(/\ fault' = "none"
        /\ ret'.op \in UpdateOps \cup FinalOps \cup {"HMAC_Final"}
        /\ ret'.rv = 0)
       => /\ outl' = outl
          /\ hmac_len' = hmac_len
          /\ \A c \in CCtxs :
                /\ cipher_ctx'[c].data_remaining = cipher_ctx[c].data_remaining
                /\ cipher_ctx'[c].data_processed = cipher_ctx[c].data_processed]_vars

\* C9: after a cipher update with a non-null output buffer and an input
\* length inl >= 0, on a context with a cipher configured, the reported
\* length *outl is at least 0 and at most inl.
C9_UpdateWithinInput ==
    (/\ fault = "none"
     /\ ret.op \in UpdateOps
     /\ ret.out = "buf"
     /\ ret.stored
     /\ cipher_ctx[ret.obj].cipher # NoCipher)
    => (0 <= outl /\ outl <= ret.cap)

\* C10: a cipher context that an init operation was given a non-null IV for
\* is marked iv-set, and a set-IV-length control on it afterwards fails an
\* assertion; a set-IV-length control with a length of 0 or less fails an
\* assertion in every state.
C10_IvLengthBeforeIv ==
    /\ [](\A c \in iv_supplied : cipher_ctx[c].iv_set)
    /\ [][\A c \in CCtxs, type \in SetIvLenTypes, a \in CtrlPtrArgs :
            (EVP_CIPHER_CTX_ctrl(c, type, a[1], a[2]) /\ (c \in iv_supplied \/ a[1] <= 0))
            => fault' = "assert"]_vars

\* The direction of a cipher context: the value every read of encrypt gives,
\* and none while the field is unassigned.
DirectionIs(c, enc) == cipher_ctx[c].encrypt = {enc}

SomeUpdate(c) ==
    \E o \in OutArgs, outlp \in BOOLEAN, inl \in Inls :
       \/ EVP_EncryptUpdate(c, o[1], o[2], outlp, inl)
       \/ EVP_DecryptUpdate(c, o[1], o[2], outlp, inl)
       \/ EVP_CipherUpdate(c, o[1], o[2], outlp, inl)

\* C12: once a final call has returned on a cipher context (data_processed
\* is set), no operation clears the flag for as long as the context exists,
\* the init operations included, and every encrypt, decrypt or generic
\* update on the context fails an assertion.
C12_FinalIsTerminal ==
    [][\A c \in LiveCCtxs :
          cipher_ctx[c].data_processed
             => /\ cipher_ctx'[c].st = "live" => cipher_ctx'[c].data_processed
                /\ SomeUpdate(c) => fault' = "assert"]_vars

\* An update is rejected on a context that was finalised and has been given
\* a direction and an IV by an init operation.
C12_Witness ==
    /\ fault = "assert"
    /\ ret.op \in UpdateOps
    /\ ret.obj \in LiveCCtxs
    /\ cipher_ctx[ret.obj].data_processed
    /\ ret.obj \in iv_supplied
    /\ \E enc \in ZeroOrOne : DirectionIs(ret.obj, enc)

\* C16: on an HMAC_CTX whose descriptor is a supported digest D, a
\* HMAC_Final that returns has stored the output size of D through len and
\* was given an output buffer writable for that many bytes.
C16_HmacFinalSize ==
    \A h \in HCtxs, D \in Digests :
       (/\ ret.op = "HMAC_Final"
        /\ ret.obj = h
        /\ fault = "none"
        /\ hmac_ctx[h].md = {D})
          => /\ hmac_len = D.md_size
             /\ ret.len = D.md_size
             /\ ret.out = "ok"

\* C20: EVP_PKEY_set1_EC_KEY with an absent key or EC_KEY, or on a provider
\* failure, returns 0 and leaves every key and every EC_KEY reference count
\* as it was; when it returns 1 the key holds the given EC_KEY, that EC_KEY
\* has one reference more, and the reference count of the key, the other
\* keys and the other EC_KEYs are as they were.
C20_AttachAllOrNothing ==
    [][\A k \in KeyArgs, e \in ECArgs :
          EVP_PKEY_set1_EC_KEY(k, e)
             => /\ fault' = "none"
                /\ ret'.rv \in ZeroOrOne
                /\ (k = NULL \/ e = NULL) => ret'.rv = 0
                /\ ret'.rv = 0 => pkey' = pkey /\ ec_refs' = ec_refs
                /\ ret'.rv = 1
                      => /\ pkey'[k].ec_key = e
                         /\ pkey'[k].references = pkey[k].references
                         /\ \A j \in PKeys \ {k} : pkey'[j] = pkey[j]
                         /\ ec_refs'[e] = ec_refs[e] + 1
                         /\ \A x \in ECKeys \ {e} : ec_refs'[x] = ec_refs[x]]_vars

\* A successful attachment of the second EC_KEY to a key that held the
\* first one.
C20_Witness ==
    /\ ret.op = "EVP_PKEY_set1_EC_KEY"
    /\ ret.rv = 1
    /\ pkey[ret.obj].ec_key = 2
    /\ ec_refs[1] = 2
    /\ ec_refs[2] = 2

\* The buffer holds k bytes: it is present and its object has k bytes or more.
Holds(buf, k) == buf[1] /\ k <= buf[2]

C18_DecodeRejects ==
    (/\ block.op = "EVP_DecodeBlock"
     /\ (block.n < 0 \/ block.n % 4 # 0))
       => fault = "assert"

\* The length of the base64 encoding of n bytes: 4 * ceil(n / 3).
Base64Length(n) == 4 * ((n + 2) \div 3)

\* C19: EVP_EncodeBlock with n of 0 or more returns only with t writable
\* for 1 byte; with n = 0 it returns 0; with n above 0 a call that returns
\* gives -1, or gives L = 4 * ceil(n / 3) with t writable for L + 1 bytes;
\* and a call stops, at an assertion, only when t is not writable for that
\* many bytes or f not readable for n bytes.
C19_EncodeLength ==
    (block.op = "EVP_EncodeBlock" /\ block.n >= 0)
       => /\ fault \in {"none", "assert"}
          /\ fault = "none" => Holds(block.t, 1)
          /\ (block.n = 0 /\ fault = "none") => ret.rv = 0
          /\ (block.n = 0 /\ fault = "assert") => ~Holds(block.t, 1)
          /\ (block.n > 0 /\ fault = "none")
                => \/ ret.rv = 0 - 1
                   \/ /\ ret.rv = Base64Length(block.n)
                      /\ Holds(block.t, Base64Length(block.n) + 1)
          /\ (block.n > 0 /\ fault = "assert")
                => ~(Holds(block.t, Base64Length(block.n) + 1) /\ Holds(block.f, block.n))

FinalNames == {"EVP_DigestFinal_ex", "EVP_DigestFinal"}
InitNames == {"EVP_DigestInit_ex", "EVP_DigestInit"}

\* C13: a digest context is created with a null descriptor reference; the
\* reference becomes non-null only by a digest init that returns 1; a
\* digest final that returns, with 1 or 0, leaves it null; and while it
\* is null EVP_DigestUpdate, EVP_DigestFinal_ex, EVP_DigestFinal and
\* EVP_MD_CTX_size on the context fail an assertion.
C13_DigestLifecycle ==
    [][\A m \in MCtxs :
          /\ (md_ctx[m].st = "none" /\ md_ctx'[m].st = "live") => md_ctx'[m].digest = "NULL"
          /\ (ret'.op \in FinalNames /\ ret'.obj = m /\ fault' = "none")
                => md_ctx'[m].digest = "NULL"
          /\ (md_ctx[m].st = "live" /\ md_ctx[m].digest = "NULL")
                => /\ (/\ ret'.obj = m
                       /\ ret'.op \in FinalNames \cup {"EVP_DigestUpdate", "EVP_MD_CTX_size"})
                      => fault' = "assert"
                   /\ (md_ctx'[m].st = "live" /\ md_ctx'[m].digest # "NULL")
                      => ret'.op \in InitNames /\ ret'.obj = m /\ ret'.rv = 1]_vars

\* An update is rejected on a context that was initialised, with scratch
\* space allocated, and then finalised.
C13_Witness ==
    /\ fault = "assert"
    /\ ret.op = "EVP_DigestUpdate"
    /\ ret.obj \in LiveMCtxs
    /\ md_ctx[ret.obj].digest = "NULL"
    /\ md_ctx[ret.obj].md_data = "alloc"

\* C14: when EVP_DigestFinal_ex returns 1 with a size pointer, the size it
\* stored is the output size of the descriptor the context was last
\* initialised with, and the capacity it asserted of the output buffer is
\* that size.
C14_FinalReportsSize ==
    (/\ ret.op = "EVP_DigestFinal_ex"
     /\ fault = "none"
     /\ ret.rv = 1
     /\ ret.stored)
       => /\ md_s = {EVP_MD_size(ret.out)}
          /\ ret.wr = EVP_MD_size(ret.out)

\* evp_cipher_is_valid past the null test, on the identity tag.
evp_cipher_is_valid(from) ==
    \/ from = "EVP_AES_128_GCM" \/ from = "EVP_AES_192_GCM"
    \/ from = "EVP_AES_256_GCM" \/ from = "EVP_AES_128_ECB"

\* C15: in every state each of the six EVP_MD objects has the identity tag
\* and the size it started with and has not been released, and so passes
\* evp_md_is_valid; the four EVP_CIPHER objects, which no operation
\* writes, pass evp_cipher_is_valid.
C15_DescriptorsKept ==
    /\ \A d \in MdNames :
          /\ evp_md[d] = StaticMD[d]
          /\ evp_md_is_valid(evp_md[d])
    /\ \A c \in Ciphers : evp_cipher_is_valid(c)

---------------------------------------------------------------------------
(* Properties of the init operations and the padding setters of the
   key-operation context. *)

InitOps ==
    {"EVP_PKEY_sign_init", "EVP_PKEY_derive_init",
     "EVP_PKEY_encrypt_init", "EVP_PKEY_decrypt_init"}

ModeFlags ==
    {"is_initialized_for_signing", "is_initialized_for_derivation",
     "is_initialized_for_encryption", "is_initialized_for_decryption"}

\* The mode flag an init operation sets.
FlagOf(op) ==
    CASE op = "EVP_PKEY_sign_init" -> "is_initialized_for_signing"
      [] op = "EVP_PKEY_derive_init" -> "is_initialized_for_derivation"
      [] op = "EVP_PKEY_encrypt_init" -> "is_initialized_for_encryption"
      [] op = "EVP_PKEY_decrypt_init" -> "is_initialized_for_decryption"

\* What an init call that was just made did.
InitStep ==
    ret'.op \in InitOps =>
        IF ret'.obj = NULL \/ (ret'.op # "EVP_PKEY_derive_init" /\ pctx[ret'.obj].pkey = NULL)
        THEN fault' = "assert" /\ pctx' = pctx /\ pkey' = pkey
        ELSE /\ fault' = "none"
             /\ pkey' = pkey
             /\ \/ ret'.rv = 1 /\ pctx' = [pctx EXCEPT ![ret'.obj][FlagOf(ret'.op)] = TRUE]
                \/ ret'.rv <= 0 /\ pctx' = pctx

\* A context that stays alive keeps every flag it has.
FlagsKept ==
    \A c \in Ctxs :
        (pctx[c].st = "live" /\ pctx'[c].st = "live") =>
            \A f \in ModeFlags : pctx[c][f] => pctx'[c][f]

\* C21: each of the four init operations either returns 1 having set its own
\* mode flag and nothing else (the other flags, the padding mode, the bound
\* key and the keys are as before), or returns a non-positive code having
\* changed nothing; no operation clears a mode flag of a context it leaves
\* alive; sign, encrypt and decrypt init fail an assertion on a null context
\* or a context with no bound key, derive init only on a null context.
C21_InitAllOrNothing == [][InitStep /\ FlagsKept]_vars

\* EVP_PKEY_sign_init has succeeded on a context bound to a key that already
\* had the derivation flag and a padding mode, and has them still.
C21_Witness ==
    /\ ret.op = "EVP_PKEY_sign_init" /\ ret.rv = 1 /\ fault = "none"
    /\ pctx[ret.obj].is_initialized_for_signing
    /\ pctx[ret.obj].is_initialized_for_derivation
    /\ ~pctx[ret.obj].is_initialized_for_encryption
    /\ pctx[ret.obj].rsa_pad = RSA_PKCS1_PSS_PADDING
    /\ pctx[ret.obj].pkey # NULL

\* C22: EVP_PKEY_CTX_set_rsa_padding on a context fails an assertion when pad
\* is none of the six padding identifiers, and when pad is RSA_X931_PADDING
\* while is_initialized_for_signing is false at the call; every other call on
\* a context is accepted and returns 0 or 1.
C22_PaddingClosedSet ==
    [][ret'.op = "EVP_PKEY_CTX_set_rsa_padding" =>
        \A c \in LiveCtxs, pad \in PadArgs :
            EVP_PKEY_CTX_set_rsa_padding(c, pad) =>
                IF \/ pad \notin Paddings
                   \/ (pad = RSA_X931_PADDING /\ ~pctx[c].is_initialized_for_signing)
                THEN fault' = "assert"
                ELSE fault' = "none" /\ ret'.rv \in {0, 1}]_vars

\* RSA_X931_PADDING has been selected on a context initialised for signing.
C22_Witness ==
    /\ ret.op = "EVP_PKEY_CTX_set_rsa_padding" /\ fault = "none"
    /\ pctx[ret.obj].rsa_pad = RSA_X931_PADDING
    /\ pctx[ret.obj].is_initialized_for_signing

\* The padding modes a digest setter asserts.
PaddingsFor(op) ==
    IF op = "EVP_PKEY_CTX_set_rsa_oaep_md"
    THEN {RSA_PKCS1_OAEP_PADDING}
    ELSE {RSA_PKCS1_OAEP_PADDING, RSA_PKCS1_PSS_PADDING}

\* C23: EVP_PKEY_CTX_set_rsa_oaep_md on a context fails an assertion unless
\* an earlier EVP_PKEY_CTX_set_rsa_padding has selected RSA_PKCS1_OAEP_PADDING,
\* and EVP_PKEY_CTX_set_rsa_mgf1_md unless it has selected that or
\* RSA_PKCS1_PSS_PADDING; on a context whose rsa_pad was never written both
\* fail it.
C23_DigestSettersNeedPadding ==
    [][(/\ ret'.op \in {"EVP_PKEY_CTX_set_rsa_oaep_md", "EVP_PKEY_CTX_set_rsa_mgf1_md"}
        /\ ret'.obj # NULL
        /\ pctx[ret'.obj].rsa_pad \notin PaddingsFor(ret'.op))
       => fault' = "assert"]_vars

\* C24: when EVP_DigestInit_ex or EVP_DigestInit returns 0, the context's
\* descriptor pointer is null afterwards (so that update and final on it fail
\* their assertions), whether or not it was null before the call; a call with
\* a null descriptor fails an assertion.
C24_FailedInitUninitialized ==
    [][ret'.op \in InitNames =>
          /\ (fault' = "none" /\ ret'.rv = 0) => md_ctx'[ret'.obj].digest = "NULL"
          /\ (\E m \in MArgs, impl \in BOOLEAN : DigestInit(ret'.op, m, NoMD, impl))
                => fault' = "assert"]_vars

---------------------------------------------------------------------------
(* Both results of the operations that stand for a provider. *)

\* Call A can return: some choice of its nondeterminism passes every assertion.
Accepted(A) == ENABLED (A /\ fault' = "none")

\* Call A can return success (1), and can return failure (<= 0).
CanSucceed(A) == ENABLED (A /\ fault' = "none" /\ ret'.rv = 1)
CanFail(A) == ENABLED (A /\ fault' = "none" /\ ret'.rv <= 0)

BothOutcomes(A) == Accepted(A) => (CanSucceed(A) /\ CanFail(A))

KeyOutcomes ==
    \A c \in LiveCtxs :
        /\ BothOutcomes(EVP_PKEY_derive_init(c))
        /\ BothOutcomes(EVP_PKEY_sign_init(c))
        /\ BothOutcomes(EVP_PKEY_encrypt_init(c))
        /\ BothOutcomes(EVP_PKEY_decrypt_init(c))
        /\ BothOutcomes(EVP_PKEY_CTX_ctrl(c, TRUE))
        /\ \A a \in ModeIOArgs :
              /\ BothOutcomes(EVP_PKEY_sign(c, a[1], a[2], a[3], TRUE))
              /\ BothOutcomes(EVP_PKEY_derive(c, a[1], a[2], a[3]))
              /\ BothOutcomes(EVP_PKEY_encrypt(c, a[1], a[2], a[3]))
              /\ BothOutcomes(EVP_PKEY_decrypt(c, a[1], a[2], a[3]))

DigestOutcomes ==
    \A m \in LiveMCtxs :
        /\ \A type \in OutcomeTypes :
              /\ BothOutcomes(EVP_DigestInit_ex(m, type, FALSE))
              /\ BothOutcomes(EVP_DigestInit(m, type))
        /\ \A a \in OutcomeData : BothOutcomes(EVP_DigestUpdate(m, a[1], a[2]))
        /\ \A md \in OutcomeMdOut, sp \in BOOLEAN :
              /\ BothOutcomes(EVP_DigestFinal_ex(m, md, sp))
              /\ BothOutcomes(EVP_DigestFinal(m, md, sp))
        /\ \A in \in LiveMCtxs : BothOutcomes(EVP_MD_CTX_copy_ex(m, in))

CipherOutcomes ==
    \A c \in LiveCCtxs :
        /\ \A cipher \in OutcomeCiphers, iv \in BOOLEAN, enc \in {0 - 1, 0, 1} :
              BothOutcomes(EVP_CipherInit_ex(c, cipher, iv, enc))
        /\ \A iv \in BOOLEAN :
              /\ BothOutcomes(EVP_EncryptInit_ex(c, EVP_aes_256_gcm, iv))
              /\ BothOutcomes(EVP_DecryptInit_ex(c, EVP_aes_256_gcm, iv))
        /\ \A type \in CtrlTypes, a \in OutcomeCtrl :
              BothOutcomes(EVP_CIPHER_CTX_ctrl(c, type, a[1], a[2]))
        /\ \A o \in OutcomeOut, inl \in TerminalInls :
              /\ BothOutcomes(EVP_CipherUpdate(c, o[1], o[2], TRUE, inl))
              /\ BothOutcomes(EVP_EncryptUpdate(c, o[1], o[2], TRUE, inl))
              /\ BothOutcomes(EVP_DecryptUpdate(c, o[1], o[2], TRUE, inl))
        /\ \A out \in OutcomeOut :
              /\ BothOutcomes(EVP_EncryptFinal_ex(c, out, TRUE))
              /\ BothOutcomes(EVP_DecryptFinal_ex(c, out, TRUE))

HmacOutcomes ==
    \A h \in HCtxs :
        /\ \A key \in BOOLEAN, md \in {NoMD, EVP_sha256} : BothOutcomes(HMAC_Init_ex(h, key, md))
        /\ BothOutcomes(HMAC_Update(h))
        /\ BothOutcomes(HMAC_Final(h, "ok", TRUE))

\* C25: in every reachable state, each of the four init calls, sign, derive,
\* encrypt, decrypt, EVP_PKEY_CTX_ctrl, digest init, update and final,
\* EVP_MD_CTX_copy_ex with a non-null source, cipher init, control, update
\* and final, and HMAC_Init_ex, HMAC_Update and HMAC_Final, when the state
\* and the arguments let the call return at all, can return success and can
\* return failure.
C25_BothOutcomes ==
    fault = "none" => (KeyOutcomes /\ DigestOutcomes /\ CipherOutcomes /\ HmacOutcomes)

\* EVP_DigestUpdate has just returned failure on an initialised digest
\* context, and the same call can now return success.
C25_Witness ==
    \E m \in LiveMCtxs :
        /\ ret.op = "EVP_DigestUpdate" /\ ret.obj = m /\ ret.rv = 0 /\ fault = "none"
        /\ CanSucceed(EVP_DigestUpdate(m, <<TRUE, 1>>, 1))

---------------------------------------------------------------------------
(* Creation of a key-operation context. *)

\* C26: EVP_PKEY_CTX_new on a key that fails evp_pkey_is_valid (a null
\* pointer, a destroyed key, a key whose EC_KEY is not valid) stops the
\* program and changes nothing; on a valid key it either returns a context
\* that did not exist, bound to the key, with the four flags false, and the
\* key's reference count one higher, every other key and context being as
\* before, or returns null with every key and context as before.
C26_CtxNewBindsKey ==
    [][ret'.op = "EVP_PKEY_CTX_new" =>
        \A k \in AnyKeyArgs :
            EVP_PKEY_CTX_new(k) =>
                IF ~evp_pkey_is_valid(k)
                THEN fault' # "none" /\ pkey' = pkey /\ pctx' = pctx
                ELSE /\ fault' = "none"
                     /\ IF ret'.obj = NULL
                        THEN pkey' = pkey /\ pctx' = pctx
                        ELSE /\ pctx[ret'.obj].st = "none"
                             /\ pctx'[ret'.obj].st = "live"
                             /\ pctx'[ret'.obj].pkey = k
                             /\ \A f \in ModeFlags : ~pctx'[ret'.obj][f]
                             /\ \A c \in Ctxs \ {ret'.obj} : pctx'[c] = pctx[c]
                             /\ pkey' = [pkey EXCEPT ![k].references = pkey[k].references + 1]]_vars

\* A second context has been created on a key that holds a valid EC_KEY,
\* in the slot of a context that had been initialised for signing.
C26_Witness ==
    /\ ret.op = "EVP_PKEY_CTX_new" /\ ret.obj = 1 /\ fault = "none"
    /\ pctx[1].pkey = pctx[2].pkey /\ pctx[2].st = "live"
    /\ pctx[2].is_initialized_for_signing
    /\ pkey[pctx[1].pkey].references = 3
    /\ pkey[pctx[1].pkey].ec_key # NULL

---------------------------------------------------------------------------
(* Capacity of the output buffer of the produce operations. *)

\* The call of produce operation op on context c with the (buffer, length
\* pointer, length) triple a.
ProduceCall(op, c, a) ==
    CASE op = "EVP_PKEY_sign" -> \E tbs \in BOOLEAN : EVP_PKEY_sign(c, a[1], a[2], a[3], tbs)
      [] op = "EVP_PKEY_derive" -> EVP_PKEY_derive(c, a[1], a[2], a[3])
      [] op = "EVP_PKEY_encrypt" -> EVP_PKEY_encrypt(c, a[1], a[2], a[3])
      [] op = "EVP_PKEY_decrypt" -> EVP_PKEY_decrypt(c, a[1], a[2], a[3])

\* C27: for each of sign, derive, encrypt and decrypt, a call with an output
\* buffer and a declared capacity below the operation's maximum size fails an
\* assertion, and a call with a null length pointer fails an assertion.
C27_CapacityAsserted ==
    [][ret'.op \in ProduceOps =>
        \A c \in LiveCtxs, a \in IOArgs :
            (/\ ProduceCall(ret'.op, c, a)
             /\ \/ ~a[2]
                \/ a[1] # "NULL" /\ a[3] < maxsize[ret'.op])
            => fault' = "assert"]_vars

---------------------------------------------------------------------------
(* The remaining-bytes counter of the cipher context. *)

\* The counter of a context changes only in an update with an output buffer
\* made while no cipher is configured, and is then the input length less the
\* length the update reports; a new context has counter 0.
RemainingStep ==
    \A c \in CCtxs :
        /\ (cipher_ctx[c].st = "none" /\ cipher_ctx'[c].st = "live")
              => cipher_ctx'[c].data_remaining = 0
        /\ (/\ cipher_ctx[c].st = "live" /\ cipher_ctx'[c].st = "live" /\ fault' = "none"
            /\ cipher_ctx'[c].data_remaining # cipher_ctx[c].data_remaining)
              => /\ ret'.op \in UpdateOps /\ ret'.obj = c /\ ret'.out = "buf"
                 /\ cipher_ctx[c].cipher = NoCipher
        /\ (/\ ret'.op \in UpdateOps /\ ret'.obj = c /\ ret'.out = "buf" /\ fault' = "none"
            /\ cipher_ctx[c].cipher = NoCipher)
              => /\ ret'.stored /\ outl' = ret'.len
                 /\ cipher_ctx'[c].data_remaining = ret'.cap - ret'.len
                 /\ ret'.len + cipher_ctx'[c].data_remaining = ret'.cap

\* A final on a context with padding on reports the counter and asserts the
\* output buffer writable for that many bytes.
FinalStep ==
    ret'.op \in FinalOps =>
        \A c \in LiveCCtxs, out \in OutArgs :
            (cipher_ctx[c].padding /\ FinalOutcome(ret'.op, c, out, TRUE)) =>
                /\ outl' = cipher_ctx[c].data_remaining
                /\ (fault' = "assert") = ~(out[1] /\ out[2] >= cipher_ctx[c].data_remaining)
                /\ fault' = "none" => (ret'.stored /\ ret'.len = cipher_ctx[c].data_remaining)
                /\ cipher_ctx'[c].data_remaining = cipher_ctx[c].data_remaining

\* C28: on a cipher context with padding on, a final reports *outl = the
\* remaining-bytes counter and asserts the output buffer writable for that
\* many bytes; the counter is 0 on a new context and changes only in an
\* update with a non-null output made while no cipher is configured, which
\* sets it to inl less the *outl that update reports, so that the length
\* reported by that update plus the length reported by the final is inl.
C28_FinalReportsRemaining == [][RemainingStep /\ FinalStep]_vars

\* A final has reported one remaining byte, left by an update made before a
\* cipher was configured.
C28_Witness ==
    /\ ret.op \in FinalOps /\ ret.rv = 1 /\ fault = "none"
    /\ ret.stored /\ ret.len = 1 /\ outl = 1
    /\ cipher_ctx[ret.obj].padding
    /\ cipher_ctx[ret.obj].cipher # NoCipher

---------------------------------------------------------------------------
(* The arguments of the cipher init operations. *)

\* What an init call given cipher and iv must have done to context c.
InitArgsKept(c, cipher, iv) ==
    /\ cipher = NoCipher => (fault' = "none" /\ cipher_ctx'[c].cipher = cipher_ctx[c].cipher)
    /\ cipher # NoCipher => (fault' = "none" /\ cipher_ctx'[c].cipher = cipher)
    /\ ~iv => cipher_ctx'[c].iv_set = cipher_ctx[c].iv_set

\* C29: EVP_CipherInit_ex, EVP_EncryptInit_ex and EVP_DecryptInit_ex called
\* on a context with a null cipher or a null iv fail no assertion and leave
\* the configured cipher, or the iv-set flag, as it was; called with a
\* non-null cipher they make it the configured cipher; EVP_CipherInit_ex
\* with enc = -1 leaves the direction as it was, and with enc outside
\* {0, 1, -1} fails an assertion.
C29_InitKeepsOmitted ==
    [][/\ ret'.op = "EVP_CipherInit_ex" =>
            \A c \in LiveCCtxs, cipher \in CipherArgs, iv \in BOOLEAN, enc \in EncArgs :
                EVP_CipherInit_ex(c, cipher, iv, enc) =>
                    IF enc \notin {0, 1, 0 - 1}
                    THEN fault' = "assert"
                    ELSE /\ InitArgsKept(c, cipher, iv)
                         /\ enc = 0 - 1 => cipher_ctx'[c].encrypt = cipher_ctx[c].encrypt
       /\ ret'.op = "EVP_EncryptInit_ex" =>
            \A c \in LiveCCtxs, cipher \in CipherArgs, iv \in BOOLEAN :
                EVP_EncryptInit_ex(c, cipher, iv) => InitArgsKept(c, cipher, iv)
       /\ ret'.op = "EVP_DecryptInit_ex" =>
            \A c \in LiveCCtxs, cipher \in CipherArgs, iv \in BOOLEAN :
                EVP_DecryptInit_ex(c, cipher, iv) => InitArgsKept(c, cipher, iv)]_vars

---------------------------------------------------------------------------
(* The initialized flag and the recorded descriptor of an HMAC_CTX. *)

\* The flag of h reads true and nothing else / can read false.
Marked(h) == hmac_ctx[h].is_initialized = {TRUE}
NotMarked(h) == FALSE \in ReadInitialized(h)

Rejected(A) == ENABLED (A /\ fault' = "assert")

\* Each of the three operations fails its assertion on a context whose flag
\* reads false.
NotMarkedRejected ==
    fault = "none" =>
        \A h \in HArgs :
            NotMarked(h) =>
                /\ \A key \in BOOLEAN, md \in Digests \cup {NoMD} : Rejected(HMAC_Init_ex(h, key, md))
                /\ Rejected(HMAC_Update(h))
                /\ \A md \in Bufs, lenp \in BOOLEAN : Rejected(HMAC_Final(h, md, lenp))

\* No step takes the mark from a context, and the three operations return
\* only on a context whose flag can read true.
MarkedStays ==
    \A h \in HCtxs :
        /\ Marked(h) => hmac_ctx'[h].is_initialized = {TRUE}
        /\ (ret'.op \in {"HMAC_Init_ex", "HMAC_Update", "HMAC_Final"} /\ ret'.obj = h /\ fault' = "none")
              => TRUE \in hmac_ctx[h].is_initialized

\* HMAC_Init_ex records md when key and md are both given, with either
\* result code, and leaves the recorded descriptor alone otherwise.
DescriptorRecorded ==
    ret'.op = "HMAC_Init_ex" =>
        \A h \in HCtxs, key \in BOOLEAN, md \in Digests \cup {NoMD} :
            (HMAC_Init_ex(h, key, md) /\ fault' = "none") =>
                /\ ret'.rv \in {0, 1}
                /\ hmac_ctx'[h].md = IF key /\ md # NoMD THEN {md} ELSE hmac_ctx[h].md

---------------------------------------------------------------------------
(* The verify and copy operations of a digest context. *)

VerifyOps == {"EVP_DigestVerifyInit", "EVP_DigestVerifyFinal", "EVP_MD_CTX_copy_ex"}

\* A step of a verify or copy operation leaves every digest context, EVP_MD,
\* key-operation context, key and EC_KEY reference count as it was.
VerifyFrame == ret'.op \in VerifyOps => UNCHANGED <<keyvars, mdvars>>

\* An EVP_DigestVerifyFinal that returns was called on a context whose
\* digest was not null.
VerifyFinalNeedsDigest ==
    (ret'.op = "EVP_DigestVerifyFinal" /\ fault' = "none") =>
        ret'.obj \in LiveMCtxs /\ md_ctx[ret'.obj].digest # "NULL"

---------------------------------------------------------------------------
(* The scratch buffer ctx->md_data of a digest context. *)

\* A successful init does not overwrite the pointer to a buffer that is
\* still allocated.
InitLeaksNothing ==
    (ret'.op \in InitNames /\ ret'.rv = 1 /\ fault' = "none") =>
        md_ctx[ret'.obj].md_data # "alloc"

\* EVP_MD_CTX_free and a successful EVP_MD_CTX_cleanup are not called on a
\* context whose buffer was released already.
ReleasedOnce ==
    (/\ ret'.op \in {"EVP_MD_CTX_free", "EVP_MD_CTX_cleanup"}
     /\ ret'.obj # NULL
     /\ fault' = "memory" \/ md_ctx' # md_ctx) =>
        md_ctx[ret'.obj].md_data # "freed"

\* C32: on one EVP_MD_CTX, every md_data buffer that a successful
\* EVP_DigestInit_ex allocated is released exactly once by the time the
\* context is freed: a later successful init does not lose a buffer that
\* is still allocated, and EVP_MD_CTX_free after a successful
\* EVP_MD_CTX_cleanup does not release the buffer a second time.
C32_ScratchReleasedOnce == [][InitLeaksNothing /\ ReleasedOnce]_vars

---------------------------------------------------------------------------
(* The references an EVP_PKEY takes on EC_KEYs. *)

\* C33: after any successful and failed EVP_PKEY_set1_EC_KEY calls on keys
\* and the EVP_PKEY_free calls that destroy them, every reference a key took
\* on an EC_KEY has been released once: when no key is live, each EC_KEY is
\* back at the one reference its creator holds, also an EC_KEY that a later
\* successful attach replaced.
C33_AttachRefsBalanced ==
    (fault = "none" /\ \A k \in PKeys : pkey[k].st # "live") =>
        \A e \in ECKeys : ec_refs[e] = 1

====
